---------------------------- MODULE Spec2Model ----------------------------
(***************************************************************************)
(* A model of the storage core of photondb: the lock-free page table      *)
(* (engine/src/pagetable.rs) and the write buffer                          *)
(* (page_store/write_buffer.rs).                                           *)
(*                                                                         *)
(* Each subsystem has its own specification over the shared variable      *)
(* tuple; a specification leaves the other subsystems' variables alone.   *)
(*   SpecPT   the page table driven by one caller, whole calls            *)
(*   SpecIdx  get / set / cas on the three-level slot array                *)
(*   SpecPTC  the page table driven by several threads under epoch guards  *)
(*   SpecWB   the write buffer's state word driven by one caller, whole    *)
(*            calls, any sizes                                             *)
(*   SpecWBC  the write buffer's state word driven by several threads      *)
(***************************************************************************)
EXTENDS Integers, Naturals, Sequences, FiniteSets, TLC

VARIABLES
    \* ---- page table (pagetable.rs, struct Inner) ----
    cells,      \* the atomic slots of l0 / l1 / l2, by slot location
    next,       \* Inner::next, the next never-used id
    free,       \* Inner::free, the head of the free list
    \* ---- page table, observers ----
    holds,      \* id -> number of callers that currently hold it
    stack,      \* ids deallocated and not yet handed out again, oldest first
    fresh,      \* number of never-used ids handed out so far
    ptLast,     \* the last page-table call: its operation, arguments and result
    nDealloc,   \* number of dealloc calls made so far
    shadow      \* id -> the value last installed at that id by set or cas

ptVars == <<cells, next, free, holds, stack, fresh, ptLast, nDealloc,
            shadow>>

VARIABLES
    \* ---- page table, concurrent callers (SpecPTC) ----
    tpc,        \* thread -> where it stands in its current call
    tid,        \* thread -> the local `id` of Inner::alloc
    tnx,        \* thread -> the local `next` of Inner::alloc
    defr        \* id -> the deferred Inner::dealloc(id) closure, if any

ptcVars == <<tpc, tid, tnx, defr>>

VARIABLES
    \* ---- write buffer (write_buffer.rs, struct WriteBuffer) ----
    buffer_state,   \* WriteBuffer::buffer_state, the packed atomic state word
    debug,          \* whether the build checks overflow and debug assertions
    wpc,            \* thread -> where it stands in its current call
    wcur,           \* thread -> the local `current` of its compare-and-swap loop
    wcall,          \* thread -> the call it is in and its arguments
    wlast           \* the call that returned last, and what it returned

wbVars == <<buffer_state, debug, wpc, wcur, wcall, wlast>>

VARIABLES
    \* ---- write buffer records (write_buffer.rs, the arena behind buf) ----
    arena,          \* offset -> the RecordHeader written there, or Raw
    installed,      \* observer: what the installers reserved, in order
    iterst          \* the RecordIterator in use, and what it has emitted

recVars == <<arena, installed, iterst>>

VARIABLES
    \* ---- buffer set (version.rs, struct BufferSet) ----
    bsCurrent,      \* BufferSet::current, the published BufferSetVersion
    bsLast          \* the last install / on_flushed call and its outcome

bsVars == <<bsCurrent, bsLast>>

VARIABLES
    \* ---- flush hand-off (version.rs, BufferSet::flush_notify) ----
    flush_notify,   \* the Notify: its stored permit and its suspended tasks
    fpc,            \* task -> where it stands in wait_flushable
    ntSince,        \* observer: notifies without a waiter since the last wait
    ntLast          \* the last wait_flushable / notify_flush_job step

ntVars == <<flush_notify, fpc, ntSince, ntLast>>

VARIABLES
    \* ---- version chain (version.rs, struct Version / NextVersion) ----
    vnext,      \* Version -> NextVersion::raw_version, 0 for null
    vinner,     \* Version -> VersionInner: buffers_range and write_buffers
    vth,        \* thread -> where it stands in its call, and its locals
    vlocal,     \* thread -> the thread-local VERSION, 0 for None
    vlast       \* the call that returned last, and what it returned

vcVars == <<vnext, vinner, vth, vlocal, vlast>>

VARIABLES
    \* ---- shared ownership of the write buffers (version.rs, Arc) ----
    held,       \* the VersionInner of the Versions that are held
    strong,     \* file id -> strong count of that Arc<WriteBuffer>
    retired     \* replaced BufferSetVersions whose drop is deferred

arcVars == <<held, strong, retired>>

VARIABLES
    \* ---- reclamation of BufferSetVersions (version.rs, switch_version) ----
    eheap,      \* the BufferSetVersions allocated, by address
    ecur,       \* BufferSet::current, an address
    eth,        \* thread -> where it stands in its call, and its locals
    edefer,     \* closures deferred to the collector, with the guards awaited
    efreed      \* address -> how often drop(Box::from_raw(..)) ran on it

epVars == <<eheap, ecur, eth, edefer, efreed>>

VARIABLES
    \* ---- child blocks of the page table (pagetable.rs, define_level!) ----
    lheap,      \* Inner::l1, Inner::l2 and the child blocks, by address
    lth         \* thread -> where it stands in Index::index, and its locals

lzVars == <<lheap, lth>>

laterVars == <<ntVars, vcVars, arcVars, epVars, lzVars>>

auxVars == <<recVars, bsVars, laterVars>>

\* all but the variables of the flush hand-off
ntOthers ==
    <<ptVars, ptcVars, wbVars, recVars, bsVars, vcVars, arcVars, epVars,
      lzVars>>

\* all but the variables of the version chain and of the buffer set
vcOthers ==
    <<ptVars, ptcVars, wbVars, recVars, ntVars, arcVars, epVars, lzVars>>

\* all but the variables of shared ownership and of the buffer set
arcOthers ==
    <<ptVars, ptcVars, wbVars, recVars, ntVars, vcVars, epVars, lzVars>>

\* all but the variables of the reclamation
epOthers ==
    <<ptVars, ptcVars, wbVars, recVars, bsVars, ntVars, vcVars, arcVars,
      lzVars>>

\* all but the variables of the child blocks and the page-table observers
lzOthers ==
    <<cells, next, free, holds, stack, fresh, nDealloc, ptcVars, wbVars,
      recVars, bsVars, ntVars, vcVars, arcVars, epVars>>

vars == <<ptVars, ptcVars, wbVars, auxVars>>

---------------------------------------------------------------------------
(***************************************************************************)
(* Page table: constants and the three-level index.                       *)
(***************************************************************************)

\* const FANOUT: usize = 1 << 16; scaled to 2, so that the three levels and
\* both level boundaries stay enumerable.
FANOUT == 2
L0_LEN == FANOUT
L1_LEN == FANOUT - 1
L2_LEN == FANOUT - 1
L0_MAX == FANOUT
L1_MAX == L0_MAX * FANOUT
L2_MAX == L1_MAX * FANOUT

PageIds == 0 .. (L2_MAX - 1)

\* Values a caller stores in a slot (page pointers); 0 is what a zeroed slot
\* holds.
NumPtrVals == 1
PtrVals == 1 .. NumPtrVals

\* A run of SpecPT makes at most MaxDeallocs dealloc calls.
MaxDeallocs == 4

\* In SpecPTC an alloc call starts only while the calls in flight and the
\* new one cannot take more than MaxFresh never-used ids: either that many
\* are left below MaxFresh, or the free list holds an id for each of them.
MaxFresh == 3

\* The threads that share the table.
Threads == {1, 2}

\* Option<usize>: None is <<>>, Some(id) is <<id>>.
None == <<>>
Some(id) == <<id>>

\* impl Index for L0: &self.0[index]
L0Index(block, index) == Append(block, index)

\* define_level!(L1, L0<FANOUT>, L0_MAX): child i = index / fanout, slot
\* j = index % fanout of that child.
L1Index(block, index) ==
    LET i == index \div L0_MAX
        j == index % L0_MAX
    IN  L0Index(Append(block, i), j)

\* define_level!(L2, L1<FANOUT>, L1_MAX)
L2Index(block, index) ==
    LET i == index \div L1_MAX
        j == index % L1_MAX
    IN  L1Index(Append(block, i), j)

\* A plausible slip: the level-1 range indexed into l0 (the level forgotten).
InnerIndexAliased(index) ==
    IF index < L0_MAX THEN L0Index(<<"l0">>, index)
    ELSE IF index < L1_MAX THEN L0Index(<<"l0">>, index - L0_MAX)
    ELSE L2Index(<<"l2">>, index - L1_MAX)

\* impl Index<usize> for Inner: the location of the slot of `index`.
InnerIndex(index) ==
    IF index < L0_MAX THEN L0Index(<<"l0">>, index)
    ELSE IF index < L1_MAX THEN L1Index(<<"l1">>, index - L0_MAX)
    ELSE L2Index(<<"l2">>, index - L1_MAX)

\* The slots that exist: l0 holds L0_LEN slots; l1 holds L1_LEN children of
\* FANOUT slots; l2 holds L2_LEN children, each an L1<FANOUT> of FANOUT
\* children of FANOUT slots.  Child blocks are created zeroed.
Locs ==
    {<<"l0", j>> : j \in 0 .. (L0_LEN - 1)}
    \cup {<<"l1", i, j>> : i \in 0 .. (L1_LEN - 1), j \in 0 .. (FANOUT - 1)}
    \cup {<<"l2", i, k, j>> : i \in 0 .. (L2_LEN - 1),
                              k \in 0 .. (FANOUT - 1), j \in 0 .. (FANOUT - 1)}

\* self.index(id).load(..)
Slot(id) == cells[InnerIndex(id)]

---------------------------------------------------------------------------
(***************************************************************************)
(* Write buffer: sizes, checked arithmetic and the packed state word.      *)
(*                                                                         *)
(* The code packs `allocated` into the low 32 bits of an AtomicU64,        *)
(* `num_writer` into the next 31 bits and `sealed` into the top bit, and   *)
(* computes sizes in u32.  The model keeps the layout and the arithmetic   *)
(* and scales the widths: U32_BITS stands for 32, WRITER_BITS for 31.      *)
(***************************************************************************)

U32_BITS == 8
WRITER_BITS == 2
U32_MOD == 2 ^ U32_BITS
U32_MAX == U32_MOD - 1
WRITER_MOD == 2 ^ WRITER_BITS

\* core::mem::size_of::<usize>() and size_of::<RecordHeader>()
ALIGN == 8
HEADER_SIZE == 16

\* WriteBuffer::with_capacity(file_id, size): size is a power of two above
\* size_of::<usize>(), held in a u32.
CapBits == 6
buf_size == 2 ^ CapBits

AllocOps == {"alloc_page", "save_deleted_pages", "batch"}

\* a + b in u32: `ok` is whether it fits (a build with overflow checks
\* panics when it does not), `val` is the wrapped result.
add_u32(a, b) == [ok |-> a + b < U32_MOD, val |-> (a + b) % U32_MOD]

\* fn next_multiple_of_u32: ((val + multiple - 1) / multiple) * multiple
next_multiple_of_u32(val, multiple) ==
    [ok  |-> val + multiple < U32_MOD,
     val |-> (((val + multiple - 1) % U32_MOD) \div multiple) * multiple]

\* A plausible slip: the page size is not rounded up.
record_size_unaligned(x) == add_u32(HEADER_SIZE, x)

\* fn record_size: size_of::<RecordHeader>() + next_multiple_of_u32(x, ALIGN)
record_size(x) ==
    LET m == next_multiple_of_u32(x, ALIGN)
        s == add_u32(HEADER_SIZE, m.val)
    IN  [ok |-> m.ok /\ s.ok, val |-> s.val]

\* new_page_list.iter().map(|(_, v)| record_size(*v)).sum::<u32>(),
\* folded from the left onto acc
RECURSIVE sum_record_sizes(_, _)
sum_record_sizes(list, acc) ==
    IF list = <<>> THEN acc
    ELSE LET r == record_size(Head(list))
             s == add_u32(acc.val, r.val)
         IN  sum_record_sizes(Tail(list),
                              [ok |-> acc.ok /\ r.ok /\ s.ok, val |-> s.val])

\* (len * size_of::<u64>()) as u32
deleted_pages_size(n) == (n * 8) % U32_MOD

\* A plausible slip: the mask of num_writer is one bit too wide.
BufferState_load_wide(val) ==
    [allocated  |-> val % U32_MOD,
     num_writer |-> (val \div U32_MOD) % (2 * WRITER_MOD),
     sealed     |-> (val \div (U32_MOD * WRITER_MOD)) % 2 # 0]

\* BufferState::load
BufferState_load(val) ==
    [allocated  |-> val % U32_MOD,
     num_writer |-> (val \div U32_MOD) % WRITER_MOD,
     sealed     |-> (val \div (U32_MOD * WRITER_MOD)) % 2 # 0]

has_writer(st) == st.num_writer > 0
is_flushable(st) == st.sealed /\ ~has_writer(st)
set_sealed(st) == [st EXCEPT !.sealed = TRUE]

\* BufferState::inc_writer: checked_add(1).expect(..) on the u32 field
inc_writer(st) ==
    [ok |-> st.num_writer + 1 <= U32_MAX,
     st |-> [st EXCEPT !.num_writer = (@ + 1) % U32_MOD]]

\* A plausible slip: saturating_sub in place of checked_sub.
dec_writer_saturating(st) ==
    [ok |-> TRUE,
     st |-> [st EXCEPT !.num_writer = IF @ = 0 THEN 0 ELSE @ - 1]]

\* BufferState::dec_writer: checked_sub(1).expect(..)
dec_writer(st) ==
    [ok |-> st.num_writer >= 1,
     st |-> [st EXCEPT !.num_writer = IF @ = 0 THEN U32_MAX ELSE @ - 1]]

\* A plausible slip: apply without its assert; num_writer shifted past its
\* field lands on the sealed bit.
BufferState_apply_unasserted(st) ==
    [ok  |-> TRUE,
     val |-> (IF st.sealed \/ st.num_writer >= WRITER_MOD
              THEN U32_MOD * WRITER_MOD ELSE 0)
             + (st.num_writer % WRITER_MOD) * U32_MOD
             + st.allocated]

\* BufferState::apply: assert!(num_writer < (1 << 31)), then the word
BufferState_apply(st) ==
    [ok  |-> st.num_writer < WRITER_MOD,
     val |-> (IF st.sealed THEN U32_MOD * WRITER_MOD ELSE 0)
             + (st.num_writer % WRITER_MOD) * U32_MOD
             + st.allocated]

\* A plausible slip: the bound is checked before the request is added.
BufferState_alloc_size_unchecked(st, required, size) ==
    LET r == next_multiple_of_u32(required, ALIGN)
        s == add_u32(st.allocated, r.val)
    IN  IF debug /\ (st.allocated % ALIGN # 0 \/ ~r.ok \/ ~s.ok)
        THEN [res |-> "panic", st |-> st, offset |-> 0]
        ELSE IF st.allocated > size
        THEN [res |-> "panic", st |-> st, offset |-> 0]
        ELSE [res |-> "Ok", st |-> [st EXCEPT !.allocated = s.val],
              offset |-> st.allocated]

\* BufferState::alloc_size: debug_assert on alignment, round the request up,
\* todo!() when it does not fit, else advance `allocated`.
BufferState_alloc_size(st, required, size) ==
    LET r == next_multiple_of_u32(required, ALIGN)
        s == add_u32(st.allocated, r.val)
    IN  IF debug /\ (st.allocated % ALIGN # 0 \/ ~r.ok \/ ~s.ok)
        THEN [res |-> "panic", st |-> st, offset |-> 0]
        ELSE IF s.val > size
        THEN [res |-> "panic", st |-> st, offset |-> 0]
        ELSE [res |-> "Ok", st |-> [st EXCEPT !.allocated = s.val],
              offset |-> st.allocated]

\* WriteBuffer::record_uninit: whether a header may be placed at offset
record_uninit(offset) ==
    offset % ALIGN = 0 /\ offset + HEADER_SIZE < buf_size

\* What the installers do with the granted offset: batch places a header
\* per page (offset += header.record_size()) and then the deleted-pages
\* header if there are deleted pages; alloc_page and save_deleted_pages
\* place one header.  "panic" when record_uninit refuses an offset.
RECURSIVE install_records(_, _, _)
install_records(offset, pages, tail) ==
    IF pages = <<>>
    THEN IF tail /\ ~record_uninit(offset) THEN "panic" ELSE "Ok"
    ELSE LET s == add_u32(offset, Head(pages))
         IN  IF ~record_uninit(offset) \/ (debug /\ ~s.ok)
             THEN "panic"
             ELSE install_records(s.val, Tail(pages), tail)

---------------------------------------------------------------------------
NoCall == [op |-> "none"]
NoDefer == [pc |-> "none"]

\* BufferState::default().apply(): unsealed, no writer, nothing allocated.
DefaultWord ==
    BufferState_apply([sealed |-> FALSE, num_writer |-> 0,
                       allocated |-> 0]).val

\* The arena is addressed in words: record headers sit at multiples of
\* ALIGN.  alloc() hands out memory without initializing it, and payload
\* bytes are the caller's: a word that holds no header written by an
\* installer is Raw, and reading a header from it may yield anything.
ArenaOffsets == {o \in 0 .. (buf_size - 1) : o % ALIGN = 0}
Raw == [raw |-> TRUE]

\* no RecordIterator has been made
NoIter == [state |-> "none"]

\* A WriteBuffer as the buffer set sees it.
Buffer(id) == [file_id |-> id]

\* BufferSet::new: one buffer with file id 0, range 0 .. 1
BufferSetNew ==
    LET min_file_id == 0
    IN  [buffers_range |-> [start |-> min_file_id, end |-> min_file_id + 1],
         sealed_buffers |-> <<>>,
         current_buffer |-> Buffer(min_file_id)]

\* file ids handed to install and on_flushed
MaxFileId == 5
FileIds == 0 .. MaxFileId

\* BufferSetVersion::snapshot: the sealed buffers, then the current one
snapshot(version) ==
    Append(version.sealed_buffers, version.current_buffer)

\* (buffers_range.clone(), snapshot()) of a BufferSetVersion, as Version::new
\* and Version::install put them into a VersionInner
snapshot_of(current) ==
    [buffers_range |-> current.buffers_range,
     write_buffers |-> snapshot(current)]

\* a thread outside any call of the version chain
Idle == [pc |-> "idle", op |-> "none", self |-> 0, new |-> 0,
         box |-> snapshot_of(BufferSetNew)]

\* the one thread that rotates, the one that flushes, and a reader
Roles == {"rotator", "flusher", "reader"}

\* MaybeUninit::zeroed() of a level with n entries.  `leaf` tells an L0 of
\* slots from an L1 or L2 of child pointers.
Zeroed(n, leaf) ==
    [words |-> [i \in 0 .. (n - 1) |-> 0], leaf |-> leaf, freed |-> FALSE]

\* a thread outside Index::index
NoWalk == [pc |-> "idle"]

\* a thread that holds no guard
Unpinned == [pc |-> "idle", cur |-> 0, new |-> BufferSetNew]

\* the tasks that wait for a buffer to flush
NumTasks == 3
Tasks == 1 .. NumTasks

\* Notify::new: no permit stored, no task suspended
Notify_new == [permit |-> FALSE, waiters |-> <<>>]

\* Inner::new and WriteBuffer::with_capacity; no thread is in a call, nothing
\* is deferred.
Init ==
    /\ cells = [l \in Locs |-> 0]
    /\ next = 0
    /\ free = L2_MAX
    /\ holds = [id \in PageIds |-> 0]
    /\ stack = <<>>
    /\ fresh = 0
    /\ ptLast = NoCall
    /\ nDealloc = 0
    /\ shadow = [id \in PageIds |-> 0]
    /\ buffer_state = DefaultWord
    /\ debug = FALSE
    /\ wpc = [t \in Threads |-> "idle"]
    /\ wcur = [t \in Threads |-> 0]
    /\ wcall = [t \in Threads |-> NoCall]
    /\ wlast = NoCall
    /\ arena = [o \in ArenaOffsets |-> Raw]
    /\ installed = <<>>
    /\ iterst = NoIter
    /\ bsCurrent = BufferSetNew
    /\ bsLast = NoCall
    /\ flush_notify = Notify_new
    /\ fpc = [t \in Tasks |-> "idle"]
    /\ ntSince = 0
    /\ ntLast = NoCall
    /\ vnext = <<0>>
    /\ vinner = <<snapshot_of(bsCurrent)>>
    /\ vth = [t \in Threads |-> Idle]
    /\ vlocal = [t \in Threads |-> 0]
    /\ vlast = NoCall
    /\ held = <<snapshot_of(bsCurrent)>>
    /\ strong = [id \in FileIds |-> IF id = 0 THEN 2 ELSE 0]
    /\ retired = {}
    /\ eheap = <<BufferSetNew>>
    /\ ecur = 1
    /\ eth = [t \in Roles |-> Unpinned]
    /\ edefer = <<>>
    /\ efreed = <<0>>
    /\ lheap = <<Zeroed(L1_LEN, FALSE), Zeroed(L2_LEN, FALSE)>>
    /\ lth = [t \in Threads |-> NoWalk]
    /\ tpc = [t \in Threads |-> "idle"]
    /\ tid = [t \in Threads |-> 0]
    /\ tnx = [t \in Threads |-> 0]
    /\ defr = [id \in PageIds |-> NoDefer]

---------------------------------------------------------------------------
(***************************************************************************)
(* SpecPT: one caller; every action is a whole call.  The guard is        *)
(* unprotected(), as in test_alloc, so dealloc's deferred push runs at    *)
(* once.  Slot writes by callers are part of SpecIdx and SpecPTC.          *)
(***************************************************************************)

\* What the free-list discipline promises for the next alloc, from the
\* observers alone: the most recently deallocated id, else the next
\* never-used id, else nothing.
Expected ==
    IF stack # <<>> THEN Some(stack[Len(stack)])
    ELSE IF fresh < L2_MAX THEN Some(fresh)
    ELSE None

\* A plausible slip: the never-used cursor preferred over the free list.
InnerAllocFreshFirst ==
    IF next < L2_MAX
    THEN [ret |-> Some(next), free |-> free, next |-> next + 1]
    ELSE IF free # L2_MAX
    THEN [ret |-> Some(free), free |-> Slot(free), next |-> next]
    ELSE [ret |-> None, free |-> free, next |-> next]

\* Inner::alloc run alone: the first compare_exchange of the loop succeeds.
InnerAlloc ==
    IF free # L2_MAX
    THEN [ret |-> Some(free), free |-> Slot(free), next |-> next]
    ELSE IF next < L2_MAX
    THEN [ret |-> Some(next), free |-> free, next |-> next + 1]
    ELSE [ret |-> None, free |-> free, next |-> next]

\* PageTable::alloc
Alloc ==
    LET r == InnerAlloc IN
    /\ free' = r.free
    /\ next' = r.next
    /\ ptLast' = [op |-> "alloc", ret |-> r.ret, expect |-> Expected]
    /\ IF r.ret = None
       THEN UNCHANGED <<holds, stack, fresh>>
       ELSE LET id == r.ret[1] IN
            /\ holds' = [holds EXCEPT ![id] = @ + 1]
            /\ IF stack # <<>>
               THEN stack' = SubSeq(stack, 1, Len(stack) - 1) /\ fresh' = fresh
               ELSE stack' = stack /\ fresh' = fresh + 1
    /\ UNCHANGED <<cells, nDealloc, shadow, ptcVars, wbVars, auxVars>>

\* A plausible slip: the freed slot is not linked to the old head, so the
\* rest of the free list is lost.
InnerDeallocUnlinked(id) ==
    [cells |-> cells, free |-> id]

\* Inner::dealloc run alone: store the old head in the slot, swing the head.
InnerDealloc(id) ==
    [cells |-> [cells EXCEPT ![InnerIndex(id)] = free], free |-> id]

\* PageTable::dealloc of an id the caller holds
Dealloc(id) ==
    /\ nDealloc < MaxDeallocs
    /\ nDealloc' = nDealloc + 1
    /\ holds[id] > 0
    /\ LET r == InnerDealloc(id) IN
       /\ cells' = r.cells
       /\ free' = r.free
    /\ holds' = [holds EXCEPT ![id] = @ - 1]
    /\ stack' = Append(stack, id)
    /\ ptLast' = [op |-> "dealloc"]
    /\ UNCHANGED <<next, fresh, shadow, ptcVars, wbVars, auxVars>>

\* PageTable::set: self.inner[id].store(ptr, Release)
PageTableSet(id, ptr) == [cells EXCEPT ![InnerIndex(id)] = ptr]

NextPT ==
    \/ Alloc
    \/ \E id \in PageIds : Dealloc(id)

SpecPT == Init /\ [][NextPT]_vars

---------------------------------------------------------------------------
(***************************************************************************)
(* SpecIdx: get / set / cas on any id of the table, as test_index does.   *)
(* `shadow` is kept per id, by what set and cas are documented to install; *)
(* `cells` is what the code's index arithmetic reads and writes.          *)
(***************************************************************************)

Ok(v) == <<"Ok", v>>
Err(v) == <<"Err", v>>

\* PageTable::get
Get(id) ==
    /\ ptLast' = [op |-> "get", id |-> id, ret |-> Slot(id),
                  expect |-> shadow[id]]
    /\ UNCHANGED <<cells, next, free, holds, stack, fresh, nDealloc,
                   shadow, ptcVars, wbVars, auxVars>>

\* PageTable::set
Set(id, ptr) ==
    /\ cells' = PageTableSet(id, ptr)
    /\ shadow' = [shadow EXCEPT ![id] = ptr]
    /\ ptLast' = [op |-> "set", id |-> id, new |-> ptr]
    /\ UNCHANGED <<next, free, holds, stack, fresh, nDealloc, ptcVars, wbVars,
                   auxVars>>

\* A plausible slip: the new value is stored whether or not the slot held
\* `old`.
PageTableCasBlind(id, old, new) ==
    [cells |-> [cells EXCEPT ![InnerIndex(id)] = new],
     ret |-> IF Slot(id) = old THEN Ok(old) ELSE Err(Slot(id))]

\* PageTable::cas: compare_exchange(old, new, AcqRel, Acquire) on the slot
PageTableCas(id, old, new) ==
    IF Slot(id) = old
    THEN [cells |-> [cells EXCEPT ![InnerIndex(id)] = new], ret |-> Ok(old)]
    ELSE [cells |-> cells, ret |-> Err(Slot(id))]

Cas(id, old, new) ==
    LET r == PageTableCas(id, old, new) IN
    /\ cells' = r.cells
    /\ shadow' = [shadow EXCEPT ![id] = IF @ = old THEN new ELSE @]
    /\ ptLast' = [op |-> "cas", id |-> id, old |-> old, new |-> new,
                  ret |-> r.ret,
                  expect |-> IF shadow[id] = old THEN Ok(old)
                             ELSE Err(shadow[id])]
    /\ UNCHANGED <<next, free, holds, stack, fresh, nDealloc, ptcVars, wbVars,
                   auxVars>>

NextIdx ==
    \/ \E id \in PageIds : Get(id)
    \/ \E id \in PageIds, ptr \in PtrVals : Set(id, ptr)
    \/ \E id \in PageIds, old \in {0} \cup PtrVals, new \in PtrVals :
          Cas(id, old, new)

SpecIdx == Init /\ [][NextIdx]_vars

---------------------------------------------------------------------------
(***************************************************************************)
(* SpecPTC: several threads; every action is one atomic access of         *)
(* Inner::alloc or Inner::dealloc; a call's locals are kept only while it  *)
(* runs.  PageTable::alloc and ::dealloc take a                            *)
(* pinned guard: here a thread pins it as the call starts and drops it as  *)
(* the call returns.  dealloc hands its closure to Guard::defer;           *)
(* crossbeam-epoch runs a deferred closure, on some thread, no sooner than *)
(* every guard that was pinned when it was deferred has been dropped, and  *)
(* any time later.  A guard that a caller keeps for longer only delays    *)
(* closures further, which the arbitrary delay already covers.             *)
(***************************************************************************)

ptSeqVars == <<stack, fresh, ptLast, shadow, wbVars, auxVars>>

\* The ids on the free list: from the head along the links in the slots.
RECURSIVE FreeChain(_, _)
FreeChain(id, fuel) ==
    IF id >= L2_MAX \/ fuel = 0 THEN {}
    ELSE {id} \cup FreeChain(Slot(id), fuel - 1)

FreeList == FreeChain(free, L2_MAX)

\* The threads whose guard is pinned: those inside a call.
Pinned == {u \in Threads : tpc[u] # "idle"}

\* drop(guard) of thread t: closures deferred while it was pinned stop
\* waiting for it.
DropGuard(t) ==
    [id \in PageIds |->
        IF defr[id].pc = "wait"
        THEN [defr[id] EXCEPT !.wait = @ \ {t}]
        ELSE defr[id]]

\* Inner::alloc: let mut id = self.free.load(Acquire)
AllocLoadFree(t) ==
    /\ tpc[t] = "idle"
    /\ \/ next + Cardinality(Pinned) < MaxFresh
       \/ Cardinality(FreeList) > Cardinality(Pinned)
    /\ tid' = [tid EXCEPT ![t] = free]
    /\ tpc' = [tpc EXCEPT ![t] = IF free # L2_MAX THEN "alloc_next"
                                 ELSE "alloc_load"]
    /\ UNCHANGED <<cells, next, free, holds, nDealloc, ptSeqVars, tnx, defr>>

\* Inner::alloc: let next = self.index(id).load(Acquire)
AllocLoadNext(t) ==
    /\ tpc[t] = "alloc_next"
    /\ tnx' = [tnx EXCEPT ![t] = Slot(tid[t])]
    /\ tpc' = [tpc EXCEPT ![t] = "alloc_cas"]
    /\ UNCHANGED <<cells, next, free, holds, nDealloc, ptSeqVars,
                   tid, defr>>

\* Inner::alloc: self.free.compare_exchange(id, next, ..); Ok leaves the
\* loop and the call returns Some(id), Err(actual) goes round with
\* id = actual.
AllocCas(t) ==
    /\ tpc[t] = "alloc_cas"
    /\ IF free = tid[t]
       THEN /\ free' = tnx[t]
            /\ holds' = [holds EXCEPT ![tid[t]] = @ + 1]
            /\ tpc' = [tpc EXCEPT ![t] = "idle"]
            /\ defr' = DropGuard(t)
            /\ tid' = [tid EXCEPT ![t] = 0]
            /\ tnx' = [tnx EXCEPT ![t] = 0]
       ELSE /\ tid' = [tid EXCEPT ![t] = free]
            /\ tnx' = [tnx EXCEPT ![t] = 0]
            /\ tpc' = [tpc EXCEPT ![t] = IF free # L2_MAX THEN "alloc_next"
                                         ELSE "alloc_load"]
            /\ UNCHANGED <<free, holds, defr>>
    /\ UNCHANGED <<cells, next, nDealloc, ptSeqVars>>

\* Inner::alloc, free list empty: id = self.next.load(Relaxed); with
\* id >= L2_MAX the call returns None.
AllocLoadCursor(t) ==
    /\ tpc[t] = "alloc_load"
    /\ IF next < L2_MAX
       THEN /\ tpc' = [tpc EXCEPT ![t] = "alloc_add"]
            /\ tid' = [tid EXCEPT ![t] = next]
            /\ UNCHANGED defr
       ELSE /\ tpc' = [tpc EXCEPT ![t] = "idle"]
            /\ tid' = [tid EXCEPT ![t] = 0]
            /\ defr' = DropGuard(t)
    /\ UNCHANGED <<cells, next, free, holds, nDealloc, ptSeqVars, tnx>>

\* Inner::alloc: id = self.next.fetch_add(1, Relaxed); the call returns
\* Some(id) if id < L2_MAX, else None.
AllocFetchAdd(t) ==
    /\ tpc[t] = "alloc_add"
    /\ tid' = [tid EXCEPT ![t] = 0]
    /\ next' = next + 1
    /\ holds' = IF next < L2_MAX THEN [holds EXCEPT ![next] = @ + 1] ELSE holds
    /\ tpc' = [tpc EXCEPT ![t] = "idle"]
    /\ defr' = DropGuard(t)
    /\ UNCHANGED <<cells, free, nDealloc, ptSeqVars, tnx>>

\* A plausible slip: inner.dealloc(id) called at once instead of being
\* deferred, so the closure waits for no guard.
DeferWaitNone == {}

\* guard.defer(..): the guards the closure has to outlive, those pinned now.
DeferWait == Pinned

\* PageTable::dealloc of an id a caller holds: the closure is deferred, and
\* the caller's own guard is dropped as the call returns.
DeallocDefer(t, id) ==
    /\ tpc[t] = "idle"
    /\ holds[id] > 0
    /\ defr[id].pc = "none"
    /\ holds' = [holds EXCEPT ![id] = @ - 1]
    /\ defr' = [defr EXCEPT ![id] = [pc |-> "wait", wait |-> DeferWait \ {t}]]
    /\ UNCHANGED <<cells, next, free, nDealloc, ptSeqVars, tpc, tid, tnx>>

\* Inner::dealloc in a closure that is due:
\* let mut next = self.free.load(Acquire)
DeallocLoadFree(id) ==
    /\ defr[id].pc = "wait"
    /\ defr[id].wait = {}
    /\ defr' = [defr EXCEPT ![id] = [pc |-> "store", nx |-> free]]
    /\ UNCHANGED <<cells, next, free, holds, nDealloc, ptSeqVars,
                   tpc, tid, tnx>>

\* Inner::dealloc: self.index(id).store(next, Release)
DeallocStore(id) ==
    /\ defr[id].pc = "store"
    /\ cells' = [cells EXCEPT ![InnerIndex(id)] = defr[id].nx]
    /\ defr' = [defr EXCEPT ![id] = [pc |-> "cas", nx |-> defr[id].nx]]
    /\ UNCHANGED <<next, free, holds, nDealloc, ptSeqVars,
                   tpc, tid, tnx>>

\* Inner::dealloc: self.free.compare_exchange(next, id, ..); Ok ends the
\* closure, Err(actual) goes round with next = actual.
DeallocCas(id) ==
    /\ defr[id].pc = "cas"
    /\ IF free = defr[id].nx
       THEN /\ free' = id
            /\ defr' = [defr EXCEPT ![id] = NoDefer]
       ELSE /\ defr' = [defr EXCEPT ![id] = [pc |-> "store", nx |-> free]]
            /\ UNCHANGED free
    /\ UNCHANGED <<cells, next, holds, nDealloc, ptSeqVars,
                   tpc, tid, tnx>>

\* PageTable::set by an idle thread on an id a caller holds
SetConc(t, id, ptr) ==
    /\ tpc[t] = "idle"
    /\ holds[id] > 0
    /\ cells' = PageTableSet(id, ptr)
    /\ UNCHANGED <<next, free, holds, nDealloc, stack, fresh, ptLast,
                   shadow, ptcVars, wbVars, auxVars>>

NextPTC ==
    \/ \E t \in Threads : AllocLoadFree(t)
    \/ \E t \in Threads : AllocLoadNext(t)
    \/ \E t \in Threads : AllocCas(t)
    \/ \E t \in Threads : AllocLoadCursor(t)
    \/ \E t \in Threads : AllocFetchAdd(t)
    \/ \E t \in Threads, id \in PageIds : DeallocDefer(t, id)
    \/ \E id \in PageIds : DeallocLoadFree(id)
    \/ \E id \in PageIds : DeallocStore(id)
    \/ \E id \in PageIds : DeallocCas(id)
    \/ \E t \in Threads, id \in PageIds, ptr \in PtrVals : SetConc(t, id, ptr)

SpecPTC == Init /\ [][NextPTC]_vars

---------------------------------------------------------------------------
(***************************************************************************)
(* The loops of WriteBuffer::alloc_size, release_writer and seal.  Each    *)
(* pass works on the local `current` up to its compare_exchange; the       *)
(* operators below give what a pass decides.                               *)
(***************************************************************************)

\* A plausible slip: the sealed flag is not looked at.
alloc_size_pass_unsealed(current, need, acquire_writer) ==
    LET st0 == BufferState_load(current)
        inc == IF acquire_writer THEN inc_writer(st0)
               ELSE [ok |-> TRUE, st |-> st0]
        al == BufferState_alloc_size(inc.st, need, buf_size)
        new == BufferState_apply(al.st)
    IN  IF ~inc.ok \/ al.res = "panic" \/ ~new.ok
        THEN [res |-> "panic", new |-> current, offset |-> 0]
        ELSE [res |-> "cas", new |-> new.val, offset |-> al.offset]

\* One pass of the loop of WriteBuffer::alloc_size: "Again", "panic", or
\* "cas" with the word to install and the offset granted.
alloc_size_pass(current, need, acquire_writer) ==
    LET st0 == BufferState_load(current)
        inc == IF acquire_writer THEN inc_writer(st0)
               ELSE [ok |-> TRUE, st |-> st0]
        al == BufferState_alloc_size(inc.st, need, buf_size)
        new == BufferState_apply(al.st)
    IN  IF st0.sealed
        THEN [res |-> "Again", new |-> current, offset |-> 0]
        ELSE IF ~inc.ok \/ al.res = "panic" \/ ~new.ok
        THEN [res |-> "panic", new |-> current, offset |-> 0]
        ELSE [res |-> "cas", new |-> new.val, offset |-> al.offset]

\* A plausible slip: Flush is reported whenever the buffer is sealed.
release_writer_pass_sealed(current) ==
    LET dec == dec_writer(BufferState_load(current))
        new == BufferState_apply(dec.st)
    IN  IF ~dec.ok \/ ~new.ok
        THEN [res |-> "panic", new |-> current]
        ELSE [res |-> IF dec.st.sealed THEN "Flush" ELSE "None",
              new |-> new.val]

\* One pass of the loop of release_writer: "panic", or the word to install
\* and the value returned if the exchange succeeds.
release_writer_pass(current) ==
    LET dec == dec_writer(BufferState_load(current))
        new == BufferState_apply(dec.st)
    IN  IF ~dec.ok \/ ~new.ok
        THEN [res |-> "panic", new |-> current]
        ELSE [res |-> IF is_flushable(dec.st) THEN "Flush" ELSE "None",
              new |-> new.val]

\* A plausible slip: the writer is not released along with the seal.
seal_pass_keeps_writer(current, release) ==
    LET st0 == BufferState_load(current)
        st1 == set_sealed(st0)
        new == BufferState_apply(st1)
    IN  IF st0.sealed
        THEN [res |-> IF release THEN "release" ELSE "Again", new |-> current]
        ELSE IF ~new.ok
        THEN [res |-> "panic", new |-> current]
        ELSE [res |-> IF has_writer(st1) THEN "None" ELSE "Flush",
              new |-> new.val]

\* A plausible slip: a sealed buffer answers Again whatever is asked.
seal_pass_sealed_again(current, release) ==
    LET st0 == BufferState_load(current)
        st1 == set_sealed(st0)
        dec == IF release THEN dec_writer(st1) ELSE [ok |-> TRUE, st |-> st1]
        new == BufferState_apply(dec.st)
    IN  IF st0.sealed
        THEN [res |-> "Again", new |-> current]
        ELSE IF ~dec.ok \/ ~new.ok
        THEN [res |-> "panic", new |-> current]
        ELSE [res |-> IF has_writer(dec.st) THEN "None" ELSE "Flush",
              new |-> new.val]

\* A plausible slip: a sealed buffer is sealed over again.
seal_pass_reseals(current, release) ==
    LET st1 == set_sealed(BufferState_load(current))
        dec == IF release THEN dec_writer(st1) ELSE [ok |-> TRUE, st |-> st1]
        new == BufferState_apply(dec.st)
    IN  IF ~dec.ok \/ ~new.ok
        THEN [res |-> "panic", new |-> current]
        ELSE [res |-> IF has_writer(dec.st) THEN "None" ELSE "Flush",
              new |-> new.val]

\* One pass of the loop of seal: "release" when it hands over to
\* release_writer, "Again", "panic", or the word to install and the value
\* returned if the exchange succeeds.
seal_pass(current, release) ==
    LET st0 == BufferState_load(current)
        st1 == set_sealed(st0)
        dec == IF release THEN dec_writer(st1) ELSE [ok |-> TRUE, st |-> st1]
        new == BufferState_apply(dec.st)
    IN  IF st0.sealed
        THEN [res |-> IF release THEN "release" ELSE "Again", new |-> current]
        ELSE IF ~dec.ok \/ ~new.ok
        THEN [res |-> "panic", new |-> current]
        ELSE [res |-> IF has_writer(dec.st) THEN "None" ELSE "Flush",
              new |-> new.val]

\* let acquire_size = record_size(page_size), in alloc_page
alloc_page_need(page_size) == record_size(page_size)

\* let acquire_size = record_size(deleted_pages_size), in save_deleted_pages
save_deleted_pages_need(n) == record_size(deleted_pages_size(n))

\* let need = ..., in batch, with its debug_assert_eq!(need % ALIGN, 0)
batch_need(new_page_list, n) ==
    LET sum == sum_record_sizes(new_page_list, [ok |-> TRUE, val |-> 0])
        del == record_size(deleted_pages_size(n))
        tot == add_u32(sum.val, del.val)
    IN  [ok  |-> sum.ok /\ del.ok /\ tot.ok /\ tot.val % ALIGN = 0,
         val |-> tot.val]

\* the record sizes by which batch advances its offset, page by page
batch_pages(new_page_list) ==
    [i \in 1 .. Len(new_page_list) |-> record_size(new_page_list[i]).val]

\* A fresh WriteBuffer and page table; the build is either one.
InitWB ==
    /\ cells = [l \in Locs |-> 0]
    /\ next = 0
    /\ free = L2_MAX
    /\ holds = [id \in PageIds |-> 0]
    /\ stack = <<>>
    /\ fresh = 0
    /\ ptLast = NoCall
    /\ nDealloc = 0
    /\ shadow = [id \in PageIds |-> 0]
    /\ tpc = [t \in Threads |-> "idle"]
    /\ tid = [t \in Threads |-> 0]
    /\ tnx = [t \in Threads |-> 0]
    /\ defr = [id \in PageIds |-> NoDefer]
    /\ buffer_state = DefaultWord
    /\ debug \in BOOLEAN
    /\ wpc = [t \in Threads |-> "idle"]
    /\ wcur = [t \in Threads |-> 0]
    /\ wcall = [t \in Threads |-> NoCall]
    /\ wlast = NoCall
    /\ arena = [o \in ArenaOffsets |-> Raw]
    /\ installed = <<>>
    /\ iterst = NoIter
    /\ bsCurrent = BufferSetNew
    /\ bsLast = NoCall
    /\ flush_notify = Notify_new
    /\ fpc = [t \in Tasks |-> "idle"]
    /\ ntSince = 0
    /\ ntLast = NoCall
    /\ vnext = <<0>>
    /\ vinner = <<snapshot_of(bsCurrent)>>
    /\ vth = [t \in Threads |-> Idle]
    /\ vlocal = [t \in Threads |-> 0]
    /\ vlast = NoCall
    /\ held = <<snapshot_of(bsCurrent)>>
    /\ strong = [id \in FileIds |-> IF id = 0 THEN 2 ELSE 0]
    /\ retired = {}
    /\ eheap = <<BufferSetNew>>
    /\ ecur = 1
    /\ eth = [t \in Roles |-> Unpinned]
    /\ edefer = <<>>
    /\ efreed = <<0>>
    /\ lheap = <<Zeroed(L1_LEN, FALSE), Zeroed(L2_LEN, FALSE)>>
    /\ lth = [t \in Threads |-> NoWalk]

(***************************************************************************)
(* SpecWB: one caller; every action is a whole call of alloc_page,         *)
(* save_deleted_pages, batch, release_writer or seal, with sizes from the  *)
(* whole u32 range.  With no other thread the first compare_exchange of a  *)
(* loop succeeds.  A panic unwinds the call and the caller goes on.        *)
(***************************************************************************)

PageSizes == 0 .. U32_MAX
DeletedCounts == {0, 1, 2}
NewPageLists ==
    {<<>>, <<0>>, <<1, 9>>, <<9, 0, 1>>, <<U32_MAX - 15>>, <<1, U32_MAX>>,
     <<U32_MAX - 47, 9>>}

\* The shared tail of alloc_page, save_deleted_pages and batch: `need` as
\* the caller computed it, WriteBuffer::alloc_size, then the headers.
AllocRecords(op, need, pages, tail, acquire_writer) ==
    /\ IF debug /\ ~need.ok
       THEN /\ wlast' = [op |-> op, ret |-> "panic"]
            /\ UNCHANGED buffer_state
       ELSE LET p == alloc_size_pass(buffer_state, need.val, acquire_writer)
            IN  IF p.res # "cas"
                THEN /\ wlast' = [op |-> op, ret |-> p.res]
                     /\ UNCHANGED buffer_state
                ELSE /\ buffer_state' = p.new
                     /\ wlast' = [op |-> op,
                                  ret |-> install_records(p.offset, pages,
                                                          tail)]
    /\ UNCHANGED <<debug, wpc, wcur, wcall, ptVars, ptcVars, auxVars>>

\* WriteBuffer::alloc_page(page_id, page_size, acquire_writer)
AllocPage(page_size, acquire_writer) ==
    /\ AllocRecords("alloc_page", alloc_page_need(page_size), <<>>, TRUE,
                    acquire_writer)

\* WriteBuffer::save_deleted_pages(page_addrs, acquire_writer), n addresses
SaveDeletedPages(n, acquire_writer) ==
    /\ AllocRecords("save_deleted_pages", save_deleted_pages_need(n), <<>>,
                    TRUE, acquire_writer)

\* WriteBuffer::batch(new_page_list, deleted_pages), n deleted pages
Batch(new_page_list, n) ==
    /\ AllocRecords("batch", batch_need(new_page_list, n),
                    batch_pages(new_page_list), n > 0, TRUE)

\* WriteBuffer::release_writer
ReleaseWriter ==
    /\ LET p == release_writer_pass(buffer_state)
       IN  /\ buffer_state' = p.new
           /\ wlast' = [op |-> "release_writer", ret |-> p.res]
    /\ UNCHANGED <<debug, wpc, wcur, wcall, ptVars, ptcVars, auxVars>>

\* WriteBuffer::seal(release_writer)
Seal(release) ==
    /\ LET p == seal_pass(buffer_state, release)
           q == IF p.res = "release" THEN release_writer_pass(buffer_state)
                ELSE p
       IN  /\ buffer_state' = q.new
           /\ wlast' = [op |-> "seal", ret |-> q.res, release |-> release]
    /\ UNCHANGED <<debug, wpc, wcur, wcall, ptVars, ptcVars, auxVars>>

NextWB ==
    \/ \E page_size \in PageSizes, acquire_writer \in BOOLEAN :
           AllocPage(page_size, acquire_writer)
    \/ \E n \in DeletedCounts, acquire_writer \in BOOLEAN :
           SaveDeletedPages(n, acquire_writer)
    \/ \E new_page_list \in NewPageLists, n \in DeletedCounts :
           Batch(new_page_list, n)
    \/ ReleaseWriter
    \/ \E release \in BOOLEAN : Seal(release)

SpecWB == InitWB /\ [][NextWB]_vars

(***************************************************************************)
(* SpecWBC: several threads call alloc_page, save_deleted_pages, batch,    *)
(* release_writer and seal on one WriteBuffer, in any order.  A call's     *)
(* first action does its local arithmetic and the first load of the state  *)
(* word; each later action is one pass of its compare-and-swap loop, from  *)
(* the local `current` to the compare_exchange.  A panic unwinds the call  *)
(* and leaves the buffer to the other threads.                             *)
(***************************************************************************)

RacePageSizes == {1}
RaceDeletedCounts == {1}
RaceNewPageLists == {<<1>>}

Return(t, op, r) ==
    /\ wpc' = [wpc EXCEPT ![t] = "idle"]
    /\ wcur' = [wcur EXCEPT ![t] = 0]
    /\ wcall' = [wcall EXCEPT ![t] = NoCall]
    /\ wlast' = [op |-> op, ret |-> r]

\* The caller's `need`, then let mut current = self.buffer_state.load(..)
\* in WriteBuffer::alloc_size.
EnterAllocSize(t, op, need, pages, tail, acquire_writer) ==
    /\ IF debug /\ ~need.ok
       THEN /\ Return(t, op, "panic")
            /\ UNCHANGED buffer_state
       ELSE /\ wpc' = [wpc EXCEPT ![t] = "alloc"]
            /\ wcur' = [wcur EXCEPT ![t] = buffer_state]
            /\ wcall' = [wcall EXCEPT ![t] =
                   [op |-> op, need |-> need.val, pages |-> pages,
                    tail |-> tail, acquire_writer |-> acquire_writer]]
            /\ UNCHANGED <<buffer_state, wlast>>
    /\ UNCHANGED <<debug, ptVars, ptcVars, auxVars>>

\* WriteBuffer::alloc_page, up to the first load
AllocPageCall(t, page_size, acquire_writer) ==
    /\ wpc[t] = "idle"
    /\ EnterAllocSize(t, "alloc_page", alloc_page_need(page_size), <<>>,
                      TRUE, acquire_writer)

\* WriteBuffer::save_deleted_pages, up to the first load
SaveDeletedPagesCall(t, n, acquire_writer) ==
    /\ wpc[t] = "idle"
    /\ EnterAllocSize(t, "save_deleted_pages", save_deleted_pages_need(n),
                      <<>>, TRUE, acquire_writer)

\* WriteBuffer::batch, up to the first load
BatchCall(t, new_page_list, n) ==
    /\ wpc[t] = "idle"
    /\ EnterAllocSize(t, "batch", batch_need(new_page_list, n),
                      batch_pages(new_page_list), n > 0, TRUE)

\* A plausible slip: Err(e) of the compare_exchange is not taken as the new
\* `current`, so the pass is repeated with the word loaded before.
AllocSizeStep_keeps_current(t) ==
    /\ wpc[t] = "alloc"
    /\ LET c == wcall[t]
           p == alloc_size_pass(wcur[t], c.need, c.acquire_writer)
       IN  IF p.res # "cas"
           THEN /\ Return(t, c.op, p.res)
                /\ UNCHANGED buffer_state
           ELSE IF buffer_state = wcur[t]
           THEN /\ buffer_state' = p.new
                /\ Return(t, c.op, install_records(p.offset, c.pages, c.tail))
           ELSE UNCHANGED <<buffer_state, wpc, wcur, wcall, wlast>>
    /\ UNCHANGED <<debug, ptVars, ptcVars, auxVars>>

\* WriteBuffer::alloc_size, one pass, and on success the caller's
\* installation of the record headers.
AllocSizeStep(t) ==
    /\ wpc[t] = "alloc"
    /\ LET c == wcall[t]
           p == alloc_size_pass(wcur[t], c.need, c.acquire_writer)
       IN  IF p.res # "cas"
           THEN /\ Return(t, c.op, p.res)
                /\ UNCHANGED buffer_state
           ELSE IF buffer_state = wcur[t]
           THEN /\ buffer_state' = p.new
                /\ Return(t, c.op, install_records(p.offset, c.pages, c.tail))
           ELSE /\ wcur' = [wcur EXCEPT ![t] = buffer_state]
                /\ UNCHANGED <<buffer_state, wpc, wcall, wlast>>
    /\ UNCHANGED <<debug, ptVars, ptcVars, auxVars>>

\* WriteBuffer::release_writer: let mut current = self.buffer_state.load(..)
ReleaseWriterCall(t) ==
    /\ wpc[t] = "idle"
    /\ wpc' = [wpc EXCEPT ![t] = "release"]
    /\ wcur' = [wcur EXCEPT ![t] = buffer_state]
    /\ wcall' = [wcall EXCEPT ![t] = [op |-> "release_writer"]]
    /\ UNCHANGED <<buffer_state, wlast, debug, ptVars, ptcVars, auxVars>>

\* WriteBuffer::release_writer, one pass; also the release_writer that
\* seal calls on a buffer it finds sealed.
ReleaseWriterStep(t) ==
    /\ wpc[t] = "release"
    /\ LET p == release_writer_pass(wcur[t])
       IN  IF p.res = "panic"
           THEN /\ Return(t, wcall[t].op, "panic")
                /\ UNCHANGED buffer_state
           ELSE IF buffer_state = wcur[t]
           THEN /\ buffer_state' = p.new
                /\ Return(t, wcall[t].op, p.res)
           ELSE /\ wcur' = [wcur EXCEPT ![t] = buffer_state]
                /\ UNCHANGED <<buffer_state, wpc, wcall, wlast>>
    /\ UNCHANGED <<debug, ptVars, ptcVars, auxVars>>

\* WriteBuffer::seal(release_writer): the first load
SealCall(t, release) ==
    /\ wpc[t] = "idle"
    /\ wpc' = [wpc EXCEPT ![t] = "seal"]
    /\ wcur' = [wcur EXCEPT ![t] = buffer_state]
    /\ wcall' = [wcall EXCEPT ![t] = [op |-> "seal", release |-> release]]
    /\ UNCHANGED <<buffer_state, wlast, debug, ptVars, ptcVars, auxVars>>

\* WriteBuffer::seal, one pass.  On a sealed buffer with release_writer
\* set it enters release_writer, whose first load is taken here.
SealStep(t) ==
    /\ wpc[t] = "seal"
    /\ LET p == seal_pass(wcur[t], wcall[t].release)
       IN  IF p.res = "release"
           THEN /\ wpc' = [wpc EXCEPT ![t] = "release"]
                /\ wcur' = [wcur EXCEPT ![t] = buffer_state]
                /\ UNCHANGED <<buffer_state, wcall, wlast>>
           ELSE IF p.res \in {"Again", "panic"}
           THEN /\ Return(t, "seal", p.res)
                /\ UNCHANGED buffer_state
           ELSE IF buffer_state = wcur[t]
           THEN /\ buffer_state' = p.new
                /\ Return(t, "seal", p.res)
           ELSE /\ wcur' = [wcur EXCEPT ![t] = buffer_state]
                /\ UNCHANGED <<buffer_state, wpc, wcall, wlast>>
    /\ UNCHANGED <<debug, ptVars, ptcVars, auxVars>>

NextWBC ==
    \/ \E t \in Threads, page_size \in RacePageSizes,
          acquire_writer \in BOOLEAN :
           AllocPageCall(t, page_size, acquire_writer)
    \/ \E t \in Threads, n \in RaceDeletedCounts, acquire_writer \in BOOLEAN :
           SaveDeletedPagesCall(t, n, acquire_writer)
    \/ \E t \in Threads, new_page_list \in RaceNewPageLists,
          n \in RaceDeletedCounts :
           BatchCall(t, new_page_list, n)
    \/ \E t \in Threads : AllocSizeStep(t)
    \/ \E t \in Threads : ReleaseWriterCall(t)
    \/ \E t \in Threads : ReleaseWriterStep(t)
    \/ \E t \in Threads, release \in BOOLEAN : SealCall(t, release)
    \/ \E t \in Threads : SealStep(t)

SpecWBC == InitWB /\ [][NextWBC]_vars

---------------------------------------------------------------------------
(***************************************************************************)
(* Write buffer, the records: installers write headers into the arena,     *)
(* RecordIterator walks them, page() resolves a page address.  Calls are   *)
(* whole and sequential; the state word moves as in SpecWB.                *)
(***************************************************************************)

\* tests: WriteBuffer::with_capacity(1, ..)
FILE_ID == 1

\* bitflags! struct RecordFlags
EMPTY == 0
NORMAL_PAGE == 1
DELETED_PAGES == 2
TOMBSTONE == 128

\* struct RecordHeader, with `body` the u64 words a deleted-pages record
\* keeps behind its header (a page's payload is the caller's)
Header(page_id, flags, page_size, body) ==
    [raw |-> FALSE, page_id |-> page_id, flags |-> flags,
     page_size |-> page_size, body |-> body]

\* What a header read from memory no installer wrote may hold.
GarbageHeaders ==
    {Header(0, EMPTY, 0, <<>>), Header(0, NORMAL_PAGE, 8, <<>>),
     Header(0, DELETED_PAGES, 4, <<>>)}

\* (file_id << 32) | offset
page_addr_of(file_id, offset) == file_id * U32_MOD + offset

\* A plausible slip: the address of the header, not of the payload.
new_page_at_header_addr(ar, offset, page_id, page_size) ==
    [arena  |-> [ar EXCEPT ![offset] =
                    Header(page_id, NORMAL_PAGE, page_size, <<>>)],
     record |-> [kind |-> "Page", offset |-> offset, page_id |-> page_id,
                 page_size |-> page_size, deleted_pages |-> <<>>,
                 page_addr |-> page_addr_of(FILE_ID, offset),
                 buf |-> [start |-> offset + HEADER_SIZE,
                          len |-> page_size],
                 tombstoned |-> FALSE]]

\* WriteBuffer::new_page_at: write the header, compute the page address,
\* hand out the payload as PageBuf
new_page_at(ar, offset, page_id, page_size) ==
    LET page_offset == (offset + HEADER_SIZE) % U32_MOD
    IN  [arena  |-> [ar EXCEPT ![offset] =
                        Header(page_id, NORMAL_PAGE, page_size, <<>>)],
         record |-> [kind |-> "Page", offset |-> offset,
                     page_id |-> page_id, page_size |-> page_size,
                     deleted_pages |-> <<>>,
                     page_addr |-> page_addr_of(FILE_ID, page_offset),
                     buf |-> [start |-> offset + HEADER_SIZE,
                              len |-> page_size],
                     tombstoned |-> FALSE]]

\* WriteBuffer::new_deleted_pages_record_at and the caller's
\* body.copy_from_slice(deleted_pages)
new_deleted_pages_record_at(ar, offset, deleted_pages) ==
    LET page_size == deleted_pages_size(Len(deleted_pages))
    IN  [arena  |-> [ar EXCEPT ![offset] =
                        Header(0, DELETED_PAGES, page_size, deleted_pages)],
         record |-> [kind |-> "DeletedPages", offset |-> offset,
                     page_id |-> 0, page_size |-> page_size,
                     deleted_pages |-> deleted_pages,
                     page_addr |-> 0,
                     buf |-> [start |-> offset + HEADER_SIZE,
                              len |-> page_size],
                     tombstoned |-> FALSE]]

\* the loop of batch over new_page_list: new_page_at, then
\* offset += header.record_size().  `ok` is FALSE when record_uninit
\* panics; `records` are the ones written so far.
RECURSIVE batch_loop(_, _, _, _)
batch_loop(ar, records, offset, new_page_list) ==
    IF new_page_list = <<>>
    THEN [ok |-> TRUE, arena |-> ar, records |-> records, offset |-> offset]
    ELSE IF ~record_uninit(offset)
    THEN [ok |-> FALSE, arena |-> ar, records |-> records, offset |-> offset]
    ELSE LET n == new_page_at(ar, offset, Head(new_page_list)[1],
                              Head(new_page_list)[2])
             s == add_u32(offset, record_size(Head(new_page_list)[2]).val)
         IN  IF debug /\ ~s.ok
             THEN [ok |-> FALSE, arena |-> n.arena, records |-> records,
                   offset |-> offset]
             ELSE batch_loop(n.arena, Append(records, n.record), s.val,
                             Tail(new_page_list))

\* The space batch reserves for its deleted-pages record and leaves without
\* a header when the list is empty (`if !deleted_pages.is_empty()`).
no_record_at(offset) ==
    [kind |-> "None", offset |-> offset, page_id |-> 0, page_size |-> 0,
     deleted_pages |-> <<>>, page_addr |-> 0,
     buf |-> [start |-> offset + HEADER_SIZE, len |-> 0],
     tombstoned |-> FALSE]

\* What an installer does with the granted offset: the page headers, then
\* for `tail` "header" the deleted-pages header, for "skip" nothing in the
\* space reserved for it, for "none" (no such space) nothing.
write_records(ar, offset, new_page_list, deleted_pages, tail) ==
    LET b == batch_loop(ar, <<>>, offset, new_page_list)
    IN  IF ~b.ok \/ tail = "none" THEN b
        ELSE IF tail = "skip"
        THEN [b EXCEPT !.records = Append(@, no_record_at(b.offset))]
        ELSE IF ~record_uninit(b.offset) THEN [b EXCEPT !.ok = FALSE]
        ELSE LET d == new_deleted_pages_record_at(b.arena, b.offset,
                                                  deleted_pages)
             IN  [ok |-> TRUE, arena |-> d.arena,
                  records |-> Append(b.records, d.record),
                  offset |-> b.offset]

\* RecordFlags::from_bits_truncate: the bits that name no flag are dropped
from_bits_truncate(flags) ==
    (flags % 4) + (IF (flags \div TOMBSTONE) % 2 = 1 THEN TOMBSTONE ELSE 0)

\* RecordHeader::record_ref of the header at `offset`
record_ref(header, offset) ==
    LET f == from_bits_truncate(header.flags)
        size == header.page_size \div 8
    IN  IF f = NORMAL_PAGE
        THEN [res |-> "Page",
              buf |-> [start |-> offset + HEADER_SIZE,
                       len |-> header.page_size]]
        ELSE IF f = DELETED_PAGES
        THEN IF size * 8 # header.page_size
             THEN [res |-> "panic"]
             ELSE [res |-> "DeletedPages", deleted_pages |-> header.body]
        ELSE [res |-> "None"]

\* WriteBuffer::record: the header at offset, taken as initialized; g is
\* what the memory holds if no installer wrote a header there
record(offset, g) == IF arena[offset].raw THEN g ELSE arena[offset]

\* RecordIterator::next: assert!(buffer_state.is_flushable())
next_assert(st) == is_flushable(st)

\* RecordIterator::next, its loop from `offset`
RECURSIVE next_loop(_, _, _)
next_loop(offset, allocated, g) ==
    IF offset >= allocated
    THEN [res |-> "None", offset |-> offset]
    ELSE IF ~record_uninit(offset)
    THEN [res |-> "panic", offset |-> offset]
    ELSE LET record_header == record(offset, g)
             rs == record_size(record_header.page_size)
             new == add_u32(offset, rs.val)
             r == record_ref(record_header, offset)
         IN  IF (debug /\ (~rs.ok \/ ~new.ok)) \/ r.res = "panic"
             THEN [res |-> "panic", offset |-> offset]
             ELSE IF r.res # "None"
             THEN [res |-> "Some", offset |-> new.val,
                   item |-> [page_addr |-> page_addr_of(FILE_ID, offset),
                             page_id |-> record_header.page_id,
                             ref |-> r]]
             ELSE next_loop(new.val, allocated, g)

\* a panic of page(), with the part of its message that tells it apart
page_panic(msg) == [res |-> "panic", msg |-> msg]

\* A plausible slip: page() that does not look at the file id.
page_any_file(page_addr, g) ==
    LET offset == page_addr % U32_MOD
    IN  IF offset % ALIGN # 0 THEN page_panic("align requirement")
        ELSE IF offset < HEADER_SIZE THEN page_panic("not a valid page")
        ELSE IF ~record_uninit(offset - HEADER_SIZE)
        THEN page_panic("assertion failed")
        ELSE LET r == record_ref(record(offset - HEADER_SIZE, g),
                                 offset - HEADER_SIZE)
             IN  IF r.res = "Page" THEN r
                 ELSE IF r.res = "panic" THEN page_panic("assertion failed")
                 ELSE page_panic("not a valid page")

\* WriteBuffer::page: the file id, the alignment, checked_sub of the header
\* size, record() with the assert of record_uninit, record_ref
page(page_addr, g) ==
    LET file_id == page_addr \div U32_MOD
        offset == page_addr % U32_MOD
    IN  IF file_id # FILE_ID THEN page_panic("not belongs to the buffer")
        ELSE IF offset % ALIGN # 0 THEN page_panic("align requirement")
        ELSE IF offset < HEADER_SIZE THEN page_panic("not a valid page")
        ELSE IF ~record_uninit(offset - HEADER_SIZE)
        THEN page_panic("assertion failed")
        ELSE LET r == record_ref(record(offset - HEADER_SIZE, g),
                                 offset - HEADER_SIZE)
             IN  IF r.res = "Page" THEN r
                 ELSE IF r.res = "panic" THEN page_panic("assertion failed")
                 ELSE page_panic("not a valid page")

\* the installers are called while fewer records than this are installed
MaxInstalled == 2

RecPageIds == {1}
RecPageSizes == {9}
RecPageAddrs == {<<3>>}
RecDeletedPages == {<<>>, <<3>>}
RecNewPageLists == {<<>>, <<<<2, 0>>, <<1, 9>>>>}
PageAddrs ==
    {page_addr_of(FILE_ID, o) : o \in {n \in 0 .. buf_size : n % 8 = 0}}
    \cup {page_addr_of(FILE_ID, 20), page_addr_of(FILE_ID + 1, 16)}

\* alloc_size, then the headers of the records
Installer(op, need, new_page_list, deleted_pages, tail, acquire_writer) ==
    /\ Len(installed) < MaxInstalled
    /\ IF debug /\ ~need.ok
       THEN /\ wlast' = [op |-> op, ret |-> "panic"]
            /\ UNCHANGED <<buffer_state, arena, installed>>
       ELSE LET p == alloc_size_pass(buffer_state, need.val, acquire_writer)
                w == write_records(arena, p.offset, new_page_list,
                                   deleted_pages, tail)
            IN  IF p.res # "cas"
                THEN /\ wlast' = [op |-> op, ret |-> p.res]
                     /\ UNCHANGED <<buffer_state, arena, installed>>
                ELSE /\ buffer_state' = p.new
                     /\ arena' = w.arena
                     /\ installed' = IF w.ok THEN installed \o w.records
                                     ELSE installed
                     /\ wlast' = [op |-> op,
                                  ret |-> IF w.ok THEN "Ok" ELSE "panic"]
    /\ UNCHANGED <<debug, wpc, wcur, wcall, iterst, bsVars, laterVars,
                   ptVars, ptcVars>>

\* WriteBuffer::alloc_page(page_id, page_size, acquire_writer)
RecAllocPage(page_id, page_size, acquire_writer) ==
    /\ Installer("alloc_page", alloc_page_need(page_size),
                 <<<<page_id, page_size>>>>, <<>>, "none", acquire_writer)

\* WriteBuffer::save_deleted_pages(page_addrs, acquire_writer)
RecSaveDeletedPages(page_addrs, acquire_writer) ==
    /\ Installer("save_deleted_pages",
                 save_deleted_pages_need(Len(page_addrs)), <<>>,
                 page_addrs, "header", acquire_writer)

\* WriteBuffer::batch(new_page_list, deleted_pages)
RecBatch(new_page_list, deleted_pages) ==
    /\ Installer("batch",
                 batch_need([i \in 1 .. Len(new_page_list) |->
                                new_page_list[i][2]],
                            Len(deleted_pages)),
                 new_page_list, deleted_pages,
                 IF deleted_pages # <<>> THEN "header" ELSE "skip",
                 TRUE)

\* RecordHeader::set_tombstone through the header reference the installer
\* returned for the i-th record.  The reference is mutable, so it is gone
\* by the time the buffer is flushable.
SetTombstone(i) ==
    /\ ~is_flushable(BufferState_load(buffer_state))
    /\ installed[i].kind # "None"
    /\ ~installed[i].tombstoned
    /\ arena' = [arena EXCEPT ![installed[i].offset].flags = TOMBSTONE]
    /\ installed' = [installed EXCEPT ![i].tombstoned = TRUE]
    /\ wlast' = [op |-> "set_tombstone", ret |-> "Ok"]
    /\ UNCHANGED <<buffer_state, debug, wpc, wcur, wcall, iterst, bsVars, laterVars,
                   ptVars, ptcVars>>

\* WriteBuffer::iter
Iter ==
    /\ iterst' = [state |-> "active", offset |-> 0, emitted |-> <<>>]
    /\ wlast' = [op |-> "iter", ret |-> "Ok"]
    /\ UNCHANGED <<buffer_state, debug, wpc, wcur, wcall, arena, installed,
                   bsVars, laterVars,
                   ptVars, ptcVars>>

\* RecordIterator::next, one call
IterNext ==
    /\ iterst.state = "active"
    /\ LET buffer_state_ == BufferState_load(buffer_state)
       IN
        \E n \in {next_loop(iterst.offset, buffer_state_.allocated, g) :
                      g \in GarbageHeaders} :
            IF ~next_assert(buffer_state_)
            THEN /\ iterst' = [iterst EXCEPT !.state = "panicked"]
                 /\ wlast' = [op |-> "next", ret |-> "panic"]
            ELSE /\ iterst' =
                      IF n.res = "Some"
                      THEN [iterst EXCEPT !.offset = n.offset,
                                          !.emitted = Append(@, n.item)]
                      ELSE IF n.res = "None"
                      THEN [iterst EXCEPT !.state = "done",
                                          !.offset = n.offset]
                      ELSE [iterst EXCEPT !.state = "panicked"]
                 /\ wlast' = [op |-> "next", ret |-> n.res]
    /\ UNCHANGED <<buffer_state, debug, wpc, wcur, wcall, arena, installed,
                   bsVars, laterVars,
                   ptVars, ptcVars>>

\* WriteBuffer::page(page_addr)
Page(page_addr) ==
    /\ \E r \in {page(page_addr, g) : g \in GarbageHeaders} :
        wlast' = [op |-> "page", ret |-> r]
    /\ UNCHANGED <<buffer_state, debug, wpc, wcur, wcall, recVars, bsVars, laterVars,
                   ptVars, ptcVars>>

NextRec ==
    \/ \E page_id \in RecPageIds, page_size \in RecPageSizes,
          acquire_writer \in BOOLEAN :
           RecAllocPage(page_id, page_size, acquire_writer)
    \/ \E page_addrs \in RecPageAddrs, acquire_writer \in BOOLEAN :
           RecSaveDeletedPages(page_addrs, acquire_writer)
    \/ \E new_page_list \in RecNewPageLists,
          deleted_pages \in RecDeletedPages :
           RecBatch(new_page_list, deleted_pages)
    \/ ReleaseWriter
    \/ \E release \in BOOLEAN : Seal(release)
    \/ \E i \in 1 .. Len(installed) : SetTombstone(i)
    \/ Iter
    \/ IterNext
    \/ \E page_addr \in PageAddrs : Page(page_addr)

SpecRec == Init /\ [][NextRec]_vars

---------------------------------------------------------------------------
(***************************************************************************)
(* Buffer set (version.rs): the published BufferSetVersion, replaced by    *)
(* install and on_flushed.  A buffer is known by its file id.              *)
(***************************************************************************)

\* BufferSetVersion::min_file_id, next_file_id
min_file_id(version) == version.buffers_range.start
next_file_id(version) == version.buffers_range.end

\* A plausible slip: the previous current buffer is not kept.
BufferSet_install_forgets(current, write_buffer) ==
    IF write_buffer.file_id # current.buffers_range.end
    THEN [res |-> "panic", version |-> current]
    ELSE [res |-> "Ok",
          version |-> [buffers_range |->
                           [start |-> current.buffers_range.start,
                            end |-> current.buffers_range.end + 1],
                       sealed_buffers |-> current.sealed_buffers,
                       current_buffer |-> write_buffer]]

\* A plausible slip: the file id is not compared with the range end.
BufferSet_install_unchecked(current, write_buffer) ==
    [res |-> "Ok",
     version |-> [buffers_range |->
                      [start |-> current.buffers_range.start,
                       end |-> current.buffers_range.end + 1],
                  sealed_buffers |-> snapshot(current),
                  current_buffer |-> write_buffer]]

\* BufferSet::install: panic unless the file id is the range end, else the
\* version that switch_version publishes
BufferSet_install(current, write_buffer) ==
    LET next_file_id_ == current.buffers_range.end
        new_file_id == write_buffer.file_id
    IN  IF new_file_id # next_file_id_
        THEN [res |-> "panic", version |-> current]
        ELSE [res |-> "Ok",
              version |-> [buffers_range |->
                               [start |-> current.buffers_range.start,
                                end |-> next_file_id_ + 1],
                           sealed_buffers |-> snapshot(current),
                           current_buffer |-> write_buffer]]

\* A plausible slip: the popped buffer's file id is not compared.
BufferSet_on_flushed_unchecked(current, file_id) ==
    IF min_file_id(current) # file_id \/ current.sealed_buffers = <<>>
    THEN [res |-> "panic", version |-> current]
    ELSE [res |-> "Ok",
          version |-> [buffers_range |->
                           [start |-> file_id + 1,
                            end |-> current.buffers_range.end],
                       sealed_buffers |->
                           SubSeq(current.sealed_buffers, 1,
                                  Len(current.sealed_buffers) - 1),
                       current_buffer |-> current.current_buffer]]

\* A plausible slip: the file id is not compared with the range start.
BufferSet_on_flushed_any_start(current, file_id) ==
    LET n == Len(current.sealed_buffers)
    IN  IF n = 0 \/ current.sealed_buffers[n].file_id # file_id
        THEN [res |-> "panic", version |-> current]
        ELSE [res |-> "Ok",
              version |-> [buffers_range |->
                               [start |-> file_id + 1,
                                end |-> current.buffers_range.end],
                           sealed_buffers |->
                               SubSeq(current.sealed_buffers, 1, n - 1),
                           current_buffer |-> current.current_buffer]]

\* BufferSet::on_flushed: assert_eq!(min_file_id, file_id); Vec::pop takes
\* the last element of the cloned sealed_buffers (expect: there is one);
\* assert_eq!(buffer.file_id(), file_id); then the version that
\* switch_version publishes
BufferSet_on_flushed(current, file_id) ==
    LET n == Len(current.sealed_buffers)
    IN  IF min_file_id(current) # file_id
        THEN [res |-> "panic", version |-> current]
        ELSE IF n = 0
        THEN [res |-> "panic", version |-> current]
        ELSE LET buffers == SubSeq(current.sealed_buffers, 1, n - 1)
                 buffer == current.sealed_buffers[n]
             IN  IF buffer.file_id # file_id
                 THEN [res |-> "panic", version |-> current]
                 ELSE [res |-> "Ok",
                       version |-> [buffers_range |->
                                        [start |-> file_id + 1,
                                         end |-> current.buffers_range.end],
                                    sealed_buffers |-> buffers,
                                    current_buffer |->
                                        current.current_buffer]]

\* BufferSet::install(write_buffer)
Install(write_buffer) ==
    /\ LET r == BufferSet_install(bsCurrent, write_buffer)
       IN  /\ bsCurrent' = r.version
           /\ bsLast' = [op |-> "install", file_id |-> write_buffer.file_id,
                         ret |-> r.res]
    /\ UNCHANGED <<ptVars, ptcVars, wbVars, recVars, laterVars>>

\* BufferSet::on_flushed(file_id)
OnFlushed(file_id) ==
    /\ LET r == BufferSet_on_flushed(bsCurrent, file_id)
       IN  /\ bsCurrent' = r.version
           /\ bsLast' = [op |-> "on_flushed", file_id |-> file_id,
                         ret |-> r.res]
    /\ UNCHANGED <<ptVars, ptcVars, wbVars, recVars, laterVars>>

NextBS ==
    \/ \E file_id \in FileIds : Install(Buffer(file_id))
    \/ \E file_id \in FileIds : OnFlushed(file_id)

SpecBS == Init /\ [][NextBS]_vars

---------------------------------------------------------------------------
(***************************************************************************)
(* Flush hand-off (version.rs): wait_flushable and notify_flush_job on     *)
(* BufferSet::flush_notify.  Notify (crate::util::notify) is a             *)
(* single-permit wake-up: notify_one wakes one suspended task or stores    *)
(* a permit, notified() takes the permit or suspends.                      *)
(***************************************************************************)

\* notifies counted by the observer
MaxNotifies == 2

\* Notify::notified().await, first poll by task t: take the permit and be
\* ready, or join the suspended tasks
notified(n, t) ==
    IF n.permit
    THEN [state |-> [n EXCEPT !.permit = FALSE], ready |-> TRUE]
    ELSE [state |-> [n EXCEPT !.waiters = Append(@, t)], ready |-> FALSE]

\* Notify::notify_one: wake the task suspended longest, or store a permit
notify_one(n) ==
    IF n.waiters # <<>>
    THEN [state |-> [n EXCEPT !.waiters = Tail(@)],
          woken |-> {Head(n.waiters)}]
    ELSE [state |-> [n EXCEPT !.permit = TRUE], woken |-> {}]

\* A plausible slip: the future is made and dropped, not awaited.
wait_flushable_not_awaited(n, t) == [state |-> n, ready |-> TRUE]

\* BufferSet::wait_flushable: self.flush_notify.notified().await
wait_flushable(n, t) == notified(n, t)

\* A plausible slip: the flush job is not notified.
notify_flush_job_missing(n) == [state |-> n, woken |-> {}]

\* BufferSet::notify_flush_job: self.flush_notify.notify_one()
notify_flush_job(n) == notify_one(n)

\* task t calls wait_flushable().await
WaitFlushable(t) ==
    /\ fpc[t] = "idle"
    /\ LET r == wait_flushable(flush_notify, t)
       IN  /\ flush_notify' = r.state
           /\ fpc' = [fpc EXCEPT ![t] = IF r.ready THEN "done"
                                        ELSE "waiting"]
    /\ ntSince' = 0
    /\ ntLast' = [op |-> "wait_flushable", t |-> t, since |-> ntSince]
    /\ UNCHANGED ntOthers

\* some thread calls notify_flush_job()
NotifyFlushJob ==
    /\ LET r == notify_flush_job(flush_notify)
       IN  /\ flush_notify' = r.state
           /\ fpc' = [t \in Tasks |-> IF t \in r.woken THEN "woken"
                                        ELSE fpc[t]]
    /\ ntSince' = IF flush_notify.waiters = <<>> /\ ntSince < MaxNotifies
                  THEN ntSince + 1 ELSE ntSince
    /\ ntLast' = [op |-> "notify_flush_job", t |-> 0]
    /\ UNCHANGED ntOthers

\* the runtime polls the woken task t: wait_flushable().await completes
Resume(t) ==
    /\ fpc[t] = "woken"
    /\ fpc' = [fpc EXCEPT ![t] = "done"]
    /\ ntLast' = [op |-> "resume", t |-> t]
    /\ UNCHANGED <<flush_notify, ntSince, ntOthers>>

\* task t, past its wait, goes on and may wait again
Proceed(t) ==
    /\ fpc[t] = "done"
    /\ fpc' = [fpc EXCEPT ![t] = "idle"]
    /\ ntLast' = [op |-> "proceed", t |-> t]
    /\ UNCHANGED <<flush_notify, ntSince, ntOthers>>

NextNT ==
    \/ \E t \in Tasks : WaitFlushable(t)
    \/ NotifyFlushJob
    \/ \E t \in Tasks : Resume(t)
    \/ \E t \in Tasks : Proceed(t)

SpecNT == Init /\ [][NextNT]_vars

\* the runtime polls a woken task
SpecNTFair == SpecNT /\ \A t \in Tasks : WF_vars(Resume(t))

---------------------------------------------------------------------------
(***************************************************************************)
(* Version chain (version.rs): Version::install, NextVersion::install,     *)
(* NextVersion::refresh and the per-thread cache, step by step for         *)
(* concurrent callers.  A Version is known by its NextVersion; 0 stands    *)
(* for the null pointer and for None.                                      *)
(***************************************************************************)

\* Versions ever allocated, the first one by Version::new
MaxVersions == 3

\* A plausible slip: a plain store in place of the compare_exchange.
NextVersion_install_stores(nexts, at, new) ==
    [ok |-> TRUE, nexts |-> [nexts EXCEPT ![at] = new]]

\* A plausible slip: the result of the compare_exchange is dropped.
NextVersion_install_unchecked(nexts, at, new) ==
    [ok |-> TRUE,
     nexts |-> IF nexts[at] = 0 THEN [nexts EXCEPT ![at] = new] ELSE nexts]

\* NextVersion::install on the NextVersion of `at`:
\* compare_exchange(null, new).expect(..)
NextVersion_install(nexts, at, new) ==
    IF nexts[at] = 0
    THEN [ok |-> TRUE, nexts |-> [nexts EXCEPT ![at] = new]]
    ELSE [ok |-> FALSE, nexts |-> nexts]

\* A plausible slip: the walk stops at the first successor.
refresh_load_one_hop(nexts, self, new) ==
    LET raw == nexts[IF new = 0 THEN self ELSE new]
    IN  [done |-> TRUE, new |-> IF raw = 0 THEN new ELSE raw]

\* NextVersion::refresh, one load of raw_version and the match on it:
\* null ends the loop with `new`, a Version becomes `new`
refresh_load(nexts, self, new) ==
    LET raw == nexts[IF new = 0 THEN self ELSE new]
    IN  IF raw = 0 THEN [done |-> TRUE, new |-> new]
        ELSE [done |-> FALSE, new |-> raw]

\* A plausible slip: the newer Version is returned but not cached.
from_local_keeps_cache(current, new) ==
    [ret |-> IF new # 0 THEN new ELSE current, local |-> current]

\* Version::from_local once refresh() has returned `new` for the cached
\* Version `current`: set_local(new) and Some(new), else current
from_local(current, new) ==
    IF new # 0 THEN [ret |-> new, local |-> new]
    ELSE [ret |-> current, local |-> current]

\* the Versions a caller can name: the chain from the first one
RECURSIVE chain_from(_, _)
chain_from(nexts, id) ==
    IF nexts[id] = 0 \/ nexts[id] = id THEN <<id>>
    ELSE <<id>> \o chain_from(nexts, nexts[id])

\* the Versions a caller can hold: the first one and what was installed
Published == {chain_from(vnext, 1)[i] : i \in 1 .. Len(chain_from(vnext, 1))}

\* calls of Version::install under way; each allocates one Version
Installing == {t \in Threads : vth[t].op = "install"}

\* the call of thread t returns ret
VReturn(t, ret) ==
    /\ vth' = [vth EXCEPT ![t] = Idle]
    /\ vlast' = [op |-> vth[t].op, t |-> t, self |-> vth[t].self, ret |-> ret]

\* Version::install(version, delta) is called
VersionInstall(t, version) ==
    /\ vth[t].pc = "idle"
    /\ Len(vnext) + Cardinality(Installing) < MaxVersions
    /\ vth' = [vth EXCEPT ![t] = [Idle EXCEPT !.pc = "walk",
                                               !.op = "install",
                                               !.self = version]]
    /\ UNCHANGED <<vnext, vinner, vlocal, vlast, bsVars, vcOthers>>

\* Version::refresh is called on a Version
Refresh(t, version) ==
    /\ vth[t].pc = "idle"
    /\ vth' = [vth EXCEPT ![t] = [Idle EXCEPT !.pc = "walk",
                                               !.op = "refresh",
                                               !.self = version]]
    /\ UNCHANGED <<vnext, vinner, vlocal, vlast, bsVars, vcOthers>>

\* Version::from_local: None without a cached Version, else the walk from it
FromLocal(t) ==
    /\ vth[t].pc = "idle"
    /\ IF vlocal[t] = 0
       THEN vlast' = [op |-> "from_local", t |-> t, self |-> 0, ret |-> 0]
            /\ vth' = vth
       ELSE vth' = [vth EXCEPT ![t] = [Idle EXCEPT !.pc = "walk",
                                                    !.op = "from_local",
                                                    !.self = vlocal[t]]]
            /\ vlast' = vlast
    /\ UNCHANGED <<vnext, vinner, vlocal, bsVars, vcOthers>>

\* Version::set_local
SetLocal(t, version) ==
    /\ vth[t].pc = "idle"
    /\ vlocal[t] # version
    /\ vlocal' = [vlocal EXCEPT ![t] = version]
    /\ vlast' = [op |-> "set_local", t |-> t, self |-> version, ret |-> 0]
    /\ UNCHANGED <<vnext, vinner, vth, bsVars, vcOthers>>

\* one turn of the loop of NextVersion::refresh, and what its caller does
\* with the result when the loop ends
Walk(t) ==
    /\ vth[t].pc = "walk"
    /\ LET r == refresh_load(vnext, vth[t].self, vth[t].new)
       IN  IF ~r.done
           THEN vth' = [vth EXCEPT ![t].new = r.new]
                /\ UNCHANGED <<vlocal, vlast>>
           ELSE CASE vth[t].op = "refresh" ->
                       VReturn(t, r.new) /\ vlocal' = vlocal
                  [] vth[t].op = "from_local" ->
                       LET f == from_local(vlocal[t], r.new)
                       IN  VReturn(t, f.ret)
                           /\ vlocal' = [vlocal EXCEPT ![t] = f.local]
                  [] OTHER ->
                       \* unwrap_or(version)
                       vth' = [vth EXCEPT ![t].pc = "snap",
                                          ![t].new = IF r.new = 0
                                                     THEN vth[t].self
                                                     ELSE r.new]
                       /\ UNCHANGED <<vlocal, vlast>>
    /\ UNCHANGED <<vnext, vinner, bsVars, vcOthers>>

\* Version::install reads the buffer set: buffers_range and snapshot()
Snap(t) ==
    /\ vth[t].pc = "snap"
    /\ vth' = [vth EXCEPT ![t].pc = "cas", ![t].box = snapshot_of(bsCurrent)]
    /\ UNCHANGED <<vnext, vinner, vlocal, vlast, bsVars, vcOthers>>

\* Box::new(Version { .. }) and current.next.install(new); a Version that
\* is not installed stays allocated
InstallNext(t) ==
    /\ vth[t].pc = "cas"
    /\ LET new == Len(vnext) + 1
           r == NextVersion_install(Append(vnext, 0), vth[t].new, new)
       IN  /\ vnext' = r.nexts
           /\ vinner' = Append(vinner, vth[t].box)
           /\ vth' = [vth EXCEPT ![t] = Idle]
           /\ vlast' = [op |-> "install", t |-> t, self |-> vth[t].self,
                        at |-> vth[t].new, new |-> new,
                        ret |-> IF r.ok THEN "Ok" ELSE "panic"]
    /\ UNCHANGED <<vlocal, bsVars, vcOthers>>

NextVC ==
    \/ \E t \in Threads, version \in Published : VersionInstall(t, version)
    \/ \E t \in Threads, version \in Published : Refresh(t, version)
    \/ \E t \in Threads : FromLocal(t)
    \/ \E t \in Threads, version \in Published : SetLocal(t, version)
    \/ \E t \in Threads : Walk(t)
    \/ \E t \in Threads : Snap(t)
    \/ \E t \in Threads : InstallNext(t)

SpecVC == Init /\ [][NextVC]_vars

\* a thread that is in a call goes on with it
SpecVCFair ==
    SpecVC /\ \A t \in Threads : WF_vars(Walk(t)) /\ WF_vars(Snap(t))
                                 /\ WF_vars(InstallNext(t))

---------------------------------------------------------------------------
(***************************************************************************)
(* Shared ownership of the write buffers (version.rs).  A WriteBuffer is   *)
(* held through Arc clones by BufferSetVersions and by the VersionInner    *)
(* of Versions; it is dropped when its strong count reaches zero.  A       *)
(* replaced BufferSetVersion is dropped by the deferred closure of         *)
(* switch_version.  install and on_flushed run one at a time here.         *)
(***************************************************************************)

\* Versions held at a time
MaxHeld == 2

\* buffers installed after the first one
MaxRotations == 2

\* the file ids in a Vec<Arc<WriteBuffer>>, each as often as it occurs
RECURSIVE arcs_in(_, _)
arcs_in(buffers, id) ==
    IF buffers = <<>> THEN 0
    ELSE (IF Head(buffers).file_id = id THEN 1 ELSE 0)
         + arcs_in(Tail(buffers), id)

\* Arc::clone of every element of buffers
arc_clone(counts, buffers) ==
    [id \in FileIds |-> counts[id] + arcs_in(buffers, id)]

\* drop of every element of buffers; a count does not go below zero, where
\* the buffer is dropped
arc_drop(counts, buffers) ==
    [id \in FileIds |->
        IF counts[id] >= arcs_in(buffers, id)
        THEN counts[id] - arcs_in(buffers, id) ELSE 0]

\* A plausible slip: the Version keeps the buffers without a clone of
\* their Arc.
capture_borrowed(counts, current) == counts

\* Version::new and Version::install: snapshot() clones the Arc of every
\* buffer of the BufferSetVersion
capture(counts, current) == arc_clone(counts, snapshot(current))

\* BufferSet::install(write_buffer) with the counts: current.snapshot()
\* clones, the buffer handed in is owned by the new version, the old
\* version is deferred; on a panic the buffer handed in is dropped
ArcInstall(write_buffer) ==
    /\ write_buffer.file_id <= MaxRotations
    /\ LET r == BufferSet_install(bsCurrent, write_buffer)
       IN  /\ bsCurrent' = r.version
           /\ IF r.res = "Ok"
              THEN /\ strong' = [capture(strong, bsCurrent)
                                    EXCEPT ![write_buffer.file_id] = 1]
                   /\ retired' = retired \cup {bsCurrent}
              ELSE UNCHANGED <<strong, retired>>
    /\ UNCHANGED <<held, bsLast, arcOthers>>

\* BufferSet::on_flushed(file_id) with the counts: sealed_buffers.clone(),
\* the popped buffer dropped, current_buffer.clone(), the old version
\* deferred; on a panic the clones are dropped again
ArcOnFlushed(file_id) ==
    /\ LET r == BufferSet_on_flushed(bsCurrent, file_id)
       IN  /\ bsCurrent' = r.version
           /\ IF r.res = "Ok"
              THEN /\ strong' = capture(strong, r.version)
                   /\ retired' = retired \cup {bsCurrent}
              ELSE UNCHANGED <<strong, retired>>
    /\ UNCHANGED <<held, bsLast, arcOthers>>

\* the deferred closure of switch_version runs: drop(Box::from_raw(current))
Reclaim(version) ==
    /\ version \in retired
    /\ retired' = retired \ {version}
    /\ strong' = arc_drop(strong, snapshot(version))
    /\ UNCHANGED <<held, bsVars, arcOthers>>

\* Version::install as far as the VersionInner goes: buffers_range.clone()
\* and snapshot() of the current BufferSetVersion
Capture ==
    /\ Len(held) < MaxHeld
    /\ held' = Append(held, snapshot_of(bsCurrent))
    /\ strong' = capture(strong, bsCurrent)
    /\ UNCHANGED <<retired, bsVars, arcOthers>>

\* the last clone of a Version is dropped, and its VersionInner with it
DropVersion(i) ==
    /\ i \in 1 .. Len(held)
    /\ held' = SubSeq(held, 1, i - 1) \o SubSeq(held, i + 1, Len(held))
    /\ strong' = arc_drop(strong, held[i].write_buffers)
    /\ UNCHANGED <<retired, bsVars, arcOthers>>

NextArc ==
    \/ \E file_id \in 0 .. MaxRotations : ArcInstall(Buffer(file_id))
    \/ \E file_id \in 0 .. MaxRotations : ArcOnFlushed(file_id)
    \/ \E version \in retired : Reclaim(version)
    \/ Capture
    \/ \E i \in 1 .. MaxHeld : DropVersion(i)

SpecArc == Init /\ [][NextArc]_vars

---------------------------------------------------------------------------
(***************************************************************************)
(* Reclamation of BufferSetVersions (version.rs): current, install,        *)
(* on_flushed and switch_version atomic access by atomic access, for the   *)
(* rotating thread, the flushing thread and a reader.  A closure handed    *)
(* to Guard::defer runs once every guard pinned at that time is dropped.   *)
(***************************************************************************)

\* the threads that hold a guard
PinnedRoles == {t \in Roles : eth[t].pc # "idle"}

\* A plausible slip: the closure runs without waiting for any guard.
defer_at_once(deferred, addr, pinned) ==
    Append(deferred, [addr |-> addr, waits |-> {}])

\* guard.defer(..): the closure waits for the guards pinned now
defer(deferred, addr, pinned) ==
    Append(deferred, [addr |-> addr, waits |-> pinned])

\* the guard of thread t is dropped
unpin(deferred, t) ==
    [i \in DOMAIN deferred |->
        [deferred[i] EXCEPT !.waits = @ \ {t}]]

\* BufferSet::current: pin, then load `current`
Current(t) ==
    /\ t = "reader"
    /\ eth[t].pc = "idle"
    /\ eth' = [eth EXCEPT ![t] = [Unpinned EXCEPT !.pc = "ref",
                                                  !.cur = ecur]]
    /\ UNCHANGED <<eheap, ecur, edefer, efreed, epOthers>>

\* the BufferSetRef is dropped
DropRef(t) ==
    /\ eth[t].pc = "ref"
    /\ eth' = [eth EXCEPT ![t] = Unpinned]
    /\ edefer' = unpin(edefer, t)
    /\ UNCHANGED <<eheap, ecur, efreed, epOthers>>

\* install and on_flushed up to switch_version: pin, load `current`, check
\* and build the new BufferSetVersion; a panic drops the guard
Build(t, file_id) ==
    /\ t # "reader"
    /\ eth[t].pc = "idle"
    /\ LET r == IF t = "rotator"
                THEN BufferSet_install(eheap[ecur], Buffer(file_id))
                ELSE BufferSet_on_flushed(eheap[ecur], file_id)
       IN  eth' = [eth EXCEPT ![t] =
                      IF r.res = "Ok"
                      THEN [pc |-> "load", cur |-> ecur, new |-> r.version]
                      ELSE Unpinned]
    /\ UNCHANGED <<eheap, ecur, edefer, efreed, epOthers>>

\* switch_version: let current = self.current.load(Acquire)
SwitchLoad(t) ==
    /\ eth[t].pc = "load"
    /\ eth' = [eth EXCEPT ![t].pc = "store", ![t].cur = ecur]
    /\ UNCHANGED <<eheap, ecur, edefer, efreed, epOthers>>

\* switch_version: self.current.store(Box::into_raw(new), Release)
SwitchStore(t) ==
    /\ eth[t].pc = "store"
    /\ eheap' = Append(eheap, eth[t].new)
    /\ efreed' = Append(efreed, 0)
    /\ ecur' = Len(eheap) + 1
    /\ eth' = [eth EXCEPT ![t].pc = "defer"]
    /\ UNCHANGED <<edefer, epOthers>>

\* switch_version: guard.defer(drop(Box::from_raw(current))), and the guard
\* is dropped at the end of the function
SwitchDefer(t) ==
    /\ eth[t].pc = "defer"
    /\ edefer' = unpin(defer(edefer, eth[t].cur, PinnedRoles), t)
    /\ eth' = [eth EXCEPT ![t] = Unpinned]
    /\ UNCHANGED <<eheap, ecur, efreed, epOthers>>

\* the collector runs a closure that waits for no guard
Collect(i) ==
    /\ i \in DOMAIN edefer
    /\ edefer[i].waits = {}
    /\ edefer' = SubSeq(edefer, 1, i - 1) \o SubSeq(edefer, i + 1, Len(edefer))
    /\ efreed' = [efreed EXCEPT ![edefer[i].addr] = @ + 1]
    /\ UNCHANGED <<eheap, ecur, eth, epOthers>>

NextEp ==
    \/ \E t \in Roles : Current(t)
    \/ \E t \in Roles : DropRef(t)
    \/ \E t \in Roles, file_id \in 0 .. MaxRotations : Build(t, file_id)
    \/ \E t \in Roles : SwitchLoad(t)
    \/ \E t \in Roles : SwitchStore(t)
    \/ \E t \in Roles : SwitchDefer(t)
    \/ \E i \in 1 .. (2 * MaxRotations) : Collect(i)

SpecEp == Init /\ [][NextEp]_vars

---------------------------------------------------------------------------
(***************************************************************************)
(* WriteBuffer::with_capacity (write_buffer.rs): the checks on the size    *)
(* and the state word of the new buffer.                                   *)
(***************************************************************************)

\* usize::count_ones
RECURSIVE count_ones(_)
count_ones(n) == IF n = 0 THEN 0 ELSE (n % 2) + count_ones(n \div 2)

\* usize::is_power_of_two
is_power_of_two(n) == count_ones(n) = 1

\* A plausible slip: `<` for `<=` in the check against size_of::<usize>().
with_capacity_word_sized(size) ==
    IF size < ALIGN \/ ~is_power_of_two(size)
    THEN [res |-> "panic", buf_size |-> 0, buffer_state |-> 0]
    ELSE [res |-> "Ok", buf_size |-> size, buffer_state |-> DefaultWord]

\* WriteBuffer::with_capacity(file_id, size), the allocation succeeding
with_capacity(size) ==
    IF size <= ALIGN
    THEN [res |-> "panic", buf_size |-> 0, buffer_state |-> 0]
    ELSE IF ~is_power_of_two(size)
    THEN [res |-> "panic", buf_size |-> 0, buffer_state |-> 0]
    ELSE [res |-> "Ok", buf_size |-> size, buffer_state |-> DefaultWord]

\* WriteBuffer::with_capacity is called with any u32
WithCapacity(size) ==
    /\ wlast' = [op |-> "with_capacity", size |-> size,
                 ret |-> with_capacity(size)]
    /\ UNCHANGED <<buffer_state, debug, wpc, wcur, wcall, ptVars, ptcVars,
                   auxVars>>

NextCap == \E size \in 0 .. U32_MAX : WithCapacity(size)

SpecCap == Init /\ [][NextCap]_vars

---------------------------------------------------------------------------
(***************************************************************************)
(* record_size and the state word as pure functions (write_buffer.rs),     *)
(* applied to every input of the scaled ranges.                            *)
(***************************************************************************)

\* record_size(page_size) for any u32, as RecordHeader::record_size calls it
RecordSize(page_size) ==
    /\ wlast' = [op |-> "record_size", page_size |-> page_size,
                 ret |-> record_size(page_size)]
    /\ UNCHANGED <<buffer_state, debug, wpc, wcur, wcall, ptVars, ptcVars,
                   auxVars>>

\* the states apply() may be given: num_writer is a u32, of which the
\* values up to one past the writer field are taken
States ==
    [sealed : BOOLEAN, num_writer : 0 .. WRITER_MOD, allocated : 0 .. U32_MAX]

\* BufferState::apply on a state, then BufferState::load on the word
ApplyLoad(st) ==
    /\ wlast' = [op |-> "apply", st |-> st, word |-> BufferState_apply(st),
                 back |-> BufferState_load(BufferState_apply(st).val)]
    /\ UNCHANGED <<buffer_state, debug, wpc, wcur, wcall, ptVars, ptcVars,
                   auxVars>>

NextFn ==
    \/ \E page_size \in 0 .. U32_MAX : RecordSize(page_size)
    \/ \E st \in States : ApplyLoad(st)

SpecFn == Init /\ [][NextFn]_vars

---------------------------------------------------------------------------
(***************************************************************************)
(* SpecWBA: the allocating calls alone, racing on one WriteBuffer, with a  *)
(* page size near u32::MAX among the requests.  In a build without         *)
(* overflow checks `self.allocated + required` of BufferState::alloc_size  *)
(* wraps for such a request.                                               *)
(***************************************************************************)

HugePageSize == U32_MAX - (HEADER_SIZE + 4 * ALIGN - 1)
GrantPageSizes == {1, HugePageSize}

NextWBA ==
    \/ \E t \in Threads, page_size \in GrantPageSizes :
           AllocPageCall(t, page_size, FALSE)
    \/ \E t \in Threads, n \in RaceDeletedCounts :
           SaveDeletedPagesCall(t, n, FALSE)
    \/ \E t \in Threads, new_page_list \in RaceNewPageLists,
          n \in RaceDeletedCounts :
           BatchCall(t, new_page_list, n)
    \/ \E t \in Threads : AllocSizeStep(t)

SpecWBA == InitWB /\ [][NextWBA]_vars

---------------------------------------------------------------------------
(***************************************************************************)
(* SpecCAS: the compare-and-swap loops of the write buffer (alloc_size,    *)
(* release_writer, seal) and of the page table (Inner::alloc,              *)
(* Inner::dealloc), pass by pass.  The state word of a WriteBuffer and the *)
(* free-list head of the page table are different atomics and no loop on   *)
(* one reads the other, so a run works on one of the two structures.       *)
(* SpecCASFair lets every thread that is inside a loop take its next step. *)
(***************************************************************************)

\* no call has been made on the write buffer / on the page table
WBUntouched == wlast.op = "none" /\ \A t \in Threads : wpc[t] = "idle"
PTUntouched == next = 0 /\ \A t \in Threads : tpc[t] = "idle"

\* the loops on the free list are raced over the first FANOUT ids
FewIds ==
    \/ next + Cardinality(Pinned) < FANOUT
    \/ Cardinality(FreeList) > Cardinality(Pinned)

NextCAS ==
    \/ \E t \in Threads : PTUntouched /\ AllocPageCall(t, 1, TRUE)
    \/ \E t \in Threads : PTUntouched /\ AllocSizeStep(t)
    \/ \E t \in Threads : PTUntouched /\ ReleaseWriterCall(t)
    \/ \E t \in Threads : PTUntouched /\ ReleaseWriterStep(t)
    \/ \E t \in Threads, release \in BOOLEAN :
           PTUntouched /\ SealCall(t, release)
    \/ \E t \in Threads : PTUntouched /\ SealStep(t)
    \/ \E t \in Threads : WBUntouched /\ FewIds /\ AllocLoadFree(t)
    \/ \E t \in Threads : AllocLoadNext(t)
    \/ \E t \in Threads : AllocCas(t)
    \/ \E t \in Threads : AllocLoadCursor(t)
    \/ \E t \in Threads : AllocFetchAdd(t)
    \/ \E t \in Threads, id \in PageIds : DeallocDefer(t, id)
    \/ \E id \in PageIds : DeallocLoadFree(id)
    \/ \E id \in PageIds : DeallocStore(id)
    \/ \E id \in PageIds : DeallocCas(id)

SpecCAS == InitWB /\ [][NextCAS]_vars

SpecCASFair ==
    /\ SpecCAS
    /\ \A t \in Threads :
           /\ WF_vars(AllocSizeStep(t) \/ ReleaseWriterStep(t) \/ SealStep(t))
           /\ WF_vars(AllocLoadNext(t) \/ AllocCas(t) \/ AllocLoadCursor(t)
                      \/ AllocFetchAdd(t))
    /\ \A id \in 0 .. (FANOUT - 1) :
           WF_vars(DeallocStore(id) \/ DeallocCas(id))

---------------------------------------------------------------------------
(***************************************************************************)
(* SpecLz: the child blocks of levels 1 and 2, installed on first access.  *)
(* Inner::l1 and Inner::l2 are arrays of AtomicPtr, null at first (in      *)
(* lheap at addresses 1 and 2); a child of l1 is an L0<FANOUT> of slots, a *)
(* child of l2 an L1<FANOUT> of pointers to such.  Threads call get and    *)
(* set on ids of levels 1 and 2; each action is one atomic access or the   *)
(* allocation of a block.                                                  *)
(***************************************************************************)

\* ids whose slots lie in one child block: the first two of level 2, behind
\* a child of Inner::l2 and a child of that child
LazyIds == {L1_MAX, L1_MAX + 1}

\* where Inner::l1 and Inner::l2 lie in lheap
RootOf(level) == IF level = "l1" THEN 1 ELSE 2
Roots == {RootOf("l1"), RootOf("l2")}

\* self.0[i] of the block at blk
Word(blk, i) == lheap[blk].words[i]

\* A plausible slip: the loser of the exchange keeps the block it
\* allocated instead of taking the installed one.
install_or_acquire_child_keeps_own(current, child) ==
    IF current = 0
    THEN [word |-> child, child |-> child, dropped |-> {}]
    ELSE [word |-> current, child |-> child, dropped |-> {}]

\* install_or_acquire_child: compare_exchange(null_mut(), child); on
\* Err(current) the own block is dropped and `current` is taken.
install_or_acquire_child(current, child) ==
    IF current = 0
    THEN [word |-> child, child |-> child, dropped |-> {}]
    ELSE [word |-> current, child |-> current, dropped |-> {child}]

\* child.index(j) is entered with the block `child`
Descend(t, child) ==
    lth' = [lth EXCEPT ![t].blk = child, ![t].path = Tail(@),
                       ![t].child = 0,
                       ![t].pc = IF Len(lth[t].path) = 2 THEN "slot"
                                 ELSE "load"]

\* PageTable::get / PageTable::set: self.inner[id], up to Inner::index
IndexCall(t, op, id, ptr) ==
    /\ lth[t].pc = "idle"
    /\ lth' = [lth EXCEPT ![t] =
                  [pc |-> "load", op |-> op, id |-> id, ptr |-> ptr,
                   blk |-> RootOf(Head(InnerIndex(id))),
                   path |-> Tail(InnerIndex(id)), child |-> 0]]
    /\ UNCHANGED <<lheap, shadow, ptLast, lzOthers>>

\* Index::index of a level: let p = self.0[i].load(Relaxed); a child that
\* is there is entered, else install_or_acquire_child is called
IndexLoad(t) ==
    /\ lth[t].pc = "load"
    /\ LET p == Word(lth[t].blk, Head(lth[t].path))
       IN  IF p # 0 THEN Descend(t, p)
           ELSE lth' = [lth EXCEPT ![t].pc = "alloc"]
    /\ UNCHANGED <<lheap, shadow, ptLast, lzOthers>>

\* install_or_acquire_child: let mut child = Box::into_raw(Box::default())
BoxDefault(t) ==
    /\ lth[t].pc = "alloc"
    /\ lheap' = Append(lheap, Zeroed(FANOUT, Len(lth[t].path) = 2))
    /\ lth' = [lth EXCEPT ![t].pc = "cas", ![t].child = Len(lheap) + 1]
    /\ UNCHANGED <<shadow, ptLast, lzOthers>>

\* install_or_acquire_child: the compare_exchange and what follows it
InstallOrAcquireChild(t) ==
    /\ lth[t].pc = "cas"
    /\ LET blk == lth[t].blk
           i == Head(lth[t].path)
           r == install_or_acquire_child(Word(blk, i), lth[t].child)
           dropped == [a \in DOMAIN lheap |->
                          IF a \in r.dropped
                          THEN [lheap[a] EXCEPT !.freed = TRUE]
                          ELSE lheap[a]]
       IN  /\ lheap' = [dropped EXCEPT ![blk].words[i] = r.word]
           /\ Descend(t, r.child)
    /\ UNCHANGED <<shadow, ptLast, lzOthers>>

\* the load of get / the store of set on the slot &self.0[index] of the L0
SlotAccess(t) ==
    /\ lth[t].pc = "slot"
    /\ LET blk == lth[t].blk
           j == Head(lth[t].path)
       IN  IF lth[t].op = "get"
           THEN /\ ptLast' = [op |-> "get", id |-> lth[t].id,
                              ret |-> lheap[blk].words[j],
                              expect |-> shadow[lth[t].id]]
                /\ UNCHANGED <<lheap, shadow>>
           ELSE /\ lheap' = [lheap EXCEPT ![blk].words[j] = lth[t].ptr]
                /\ shadow' = [shadow EXCEPT ![lth[t].id] = lth[t].ptr]
                /\ ptLast' = [op |-> "set", id |-> lth[t].id,
                              new |-> lth[t].ptr]
    /\ lth' = [lth EXCEPT ![t] = NoWalk]
    /\ UNCHANGED lzOthers

NextLz ==
    \/ \E t \in Threads, id \in LazyIds : IndexCall(t, "get", id, 0)
    \/ \E t \in Threads, id \in LazyIds, ptr \in PtrVals :
           IndexCall(t, "set", id, ptr)
    \/ \E t \in Threads : IndexLoad(t)
    \/ \E t \in Threads : BoxDefault(t)
    \/ \E t \in Threads : InstallOrAcquireChild(t)
    \/ \E t \in Threads : SlotAccess(t)

SpecLz == Init /\ [][NextLz]_vars

---------------------------------------------------------------------------
(***************************************************************************)
(* Claims about the page table.                                            *)
(***************************************************************************)

\* C1: in every state reached by alloc and dealloc calls on a fresh page
\* table (dealloc only of ids currently allocated), an id returned by
\* alloc is at most the capacity L2_MAX, and no id is held twice: an id
\* that alloc returned is not returned again before it is deallocated.
C1_AllocUnique ==
    /\ \A id \in PageIds : holds[id] <= 1
    /\ (ptLast.op = "alloc" /\ ptLast.ret # None) => ptLast.ret[1] <= L2_MAX

\* An id handed out a second time after a dealloc, while other ids are held.
C1_Witness ==
    /\ ptLast.op = "alloc" /\ ptLast.ret # None
    /\ nDealloc > 0
    /\ ptLast.ret[1] < fresh - 1
    /\ \E id \in PageIds : id # ptLast.ret[1] /\ holds[id] = 1

\* C2: with threads running alloc and dealloc concurrently, every alloc
\* under a pinned guard and every free-list push deferred until the guards
\* pinned at the dealloc call are dropped: no id is held by two callers at
\* once, the free list holds no id that is currently allocated, and the
\* pop's compare-and-swap can only succeed with the current next link of
\* the head (no ABA).
C2_NoAba ==
    /\ \A id \in PageIds : holds[id] <= 1
    /\ \A id \in FreeList : holds[id] = 0
    /\ \A t \in Threads :
          (tpc[t] = "alloc_cas" /\ free = tid[t]) => tnx[t] = Slot(tid[t])

\* A thread is about to compare-and-swap the head away from an id that
\* another caller has meanwhile taken and deallocated again; the push of
\* that id waits for the thread's guard.
C2_Witness ==
    \E t \in Threads :
        /\ tpc[t] = "alloc_cas"
        /\ defr[tid[t]].pc = "wait"
        /\ t \in defr[tid[t]].wait
        /\ \E id \in PageIds : holds[id] = 1

\* C3: the free list is last-in first-out and preferred over never-used
\* ids: every alloc returns the most recently deallocated id that has not
\* been handed out again; only when there is none it returns a never-used
\* id, and never-used ids are issued as 0, 1, 2, ... in increasing order.
C3_FreeListLifo ==
    ptLast.op = "alloc" => ptLast.ret = ptLast.expect

\* Three ids deallocated and then handed out again, the last one first.
C3_Witness ==
    /\ ptLast.op = "alloc"
    /\ nDealloc >= 3
    /\ stack = <<>>
    /\ fresh = 3
    /\ \A id \in 0 .. 2 : holds[id] = 1

\* C4: each id names its own slot.  Reading any id yields the value last
\* installed at that same id by set or by a successful cas; cas(id, old,
\* new) returns Ok(old) and installs new iff the slot holds old, otherwise
\* it returns Err(actual) and installs nothing; an operation on one id
\* changes the value of no other id, on either side of L0_MAX and L1_MAX.
C4_SlotPerId ==
    /\ \A id \in PageIds : Slot(id) = shadow[id]
    /\ ptLast.op \in {"get", "cas"} => ptLast.ret = ptLast.expect

\* A failed cas on the first id of level 2 while the ids around both level
\* boundaries hold values of their own.
C4_Witness ==
    /\ ptLast.op = "cas" /\ ptLast.id = L1_MAX /\ ptLast.ret[1] = "Err"
    /\ shadow[L0_MAX - 1] = 1 /\ shadow[L0_MAX] = 0
    /\ shadow[L1_MAX - 1] = 1 /\ shadow[L1_MAX] = 1
    /\ shadow[L2_MAX - 1] = 1


---------------------------------------------------------------------------
(***************************************************************************)
(* Claims about the write buffer's state word.                             *)
(***************************************************************************)

\* WriteBuffer::buffer_state(): the state word, unpacked
State == BufferState_load(buffer_state)

\* thread t, in a call, takes this step
Moved(t) == wpc'[t] # wpc[t] \/ wcur'[t] # wcur[t]

\* thread t's call returns (or unwinds) in this step
Returned(t) == wpc[t] # "idle" /\ wpc'[t] = "idle"

\* C5: in every state reached by alloc_page, save_deleted_pages, batch,
\* release_writer and seal calls in any order, with page sizes from the
\* whole u32 range, in a build with or without overflow checks, allocated is
\* at most the capacity and is a multiple of the word size 8.
C5_AllocatedBounded ==
    /\ State.allocated <= buf_size
    /\ State.allocated % ALIGN = 0

\* An allocation that succeeded and filled the buffer to its last byte.
C5_Witness ==
    /\ wlast.op \in AllocOps /\ wlast.ret = "Ok"
    /\ State.allocated = buf_size

\* C6: from a flushable state word (sealed, num_writer = 0) no step of any
\* thread changes the word, and every call that returns from then on
\* returns Again or panics.
C6_FlushableFixedPoint ==
    [][is_flushable(State) =>
         /\ buffer_state' = buffer_state
         /\ \A t \in Threads :
                Returned(t) => wlast'.ret \in {"Again", "panic"}]_vars

\* A release_writer call on a flushable buffer has panicked and the buffer
\* is still flushable, with records in it.
C6_Witness ==
    /\ is_flushable(State)
    /\ State.allocated > 0
    /\ wlast = [op |-> "release_writer", ret |-> "panic"]

\* C7: a pass of alloc_size (under alloc_page, save_deleted_pages or batch)
\* that has loaded a sealed state word returns Again and leaves the word
\* as it is; a pass taken while the buffer is sealed, whatever it loaded
\* before the seal, leaves the word as it is and does not succeed; and an
\* allocation that succeeds installs its word on an unsealed buffer and
\* leaves it unsealed.
C7_SealedAllocAgain ==
    [][\A t \in Threads :
         (wpc[t] = "alloc" /\ Moved(t)) =>
             /\ BufferState_load(wcur[t]).sealed =>
                    /\ Returned(t)
                    /\ wlast'.ret = "Again"
                    /\ buffer_state' = buffer_state
             /\ State.sealed =>
                    /\ buffer_state' = buffer_state
                    /\ Returned(t) => wlast'.ret \in {"Again", "panic"}
             /\ (Returned(t) /\ wlast'.ret = "Ok") =>
                    /\ ~State.sealed
                    /\ ~BufferState_load(buffer_state').sealed
                    /\ wcur[t] = buffer_state]_vars

\* An allocation has failed with Again on a sealed buffer that still has a
\* writer, while another thread's allocation, begun before the seal, is
\* still in its loop.
C7_Witness ==
    /\ State.sealed /\ has_writer(State) /\ State.allocated > 0
    /\ wlast.op \in AllocOps /\ wlast.ret = "Again"
    /\ \E t \in Threads :
           wpc[t] = "alloc" /\ ~BufferState_load(wcur[t]).sealed

\* C8: a pass of alloc_size on an unsealed state word into which the
\* request does not fit (allocated + need rounded up to 8 > capacity)
\* returns Again and leaves the word as it is.
C8_OutOfSpaceAgain ==
    [][\A t \in Threads :
         (/\ wpc[t] = "alloc" /\ Moved(t)
          /\ ~BufferState_load(wcur[t]).sealed
          /\ BufferState_load(wcur[t]).allocated
                 + ((wcall[t].need + ALIGN - 1) \div ALIGN) * ALIGN
             > buf_size) =>
             /\ Returned(t)
             /\ wlast'.ret = "Again"
             /\ buffer_state' = buffer_state]_vars

\* An allocation has panicked on an unsealed buffer without writers that
\* has no room left for the smallest page record.
C8_Witness ==
    /\ wlast.op \in AllocOps /\ wlast.ret = "panic"
    /\ ~State.sealed /\ State.num_writer = 0
    /\ State.allocated + HEADER_SIZE + ALIGN > buf_size

\* C9: a pass of release_writer that returns without panicking has, in
\* that one step, lowered num_writer by one and left sealed and allocated
\* as they were, and returns Flush if the new word is sealed with no
\* writer, else None; any other pass leaves the word as it is; and a pass
\* whose `current` is the word, with a writer present, does return.
C9_ReleaseWriter ==
    [][\A t \in Threads :
         (wpc[t] = "release" /\ Moved(t)) =>
             LET post == BufferState_load(buffer_state')
             IN  /\ IF Returned(t) /\ wlast'.ret # "panic"
                    THEN /\ post.num_writer = State.num_writer - 1
                         /\ post.sealed = State.sealed
                         /\ post.allocated = State.allocated
                         /\ wlast'.ret =
                                IF post.sealed /\ post.num_writer = 0
                                THEN "Flush" ELSE "None"
                    ELSE buffer_state' = buffer_state
                 /\ (wcur[t] = buffer_state /\ has_writer(State)) =>
                        (Returned(t) /\ wlast'.ret # "panic")]_vars

\* The last writer of a sealed buffer has been released: the call returned
\* Flush and the buffer is flushable, with records in it.
C9_Witness ==
    /\ wlast = [op |-> "release_writer", ret |-> "Flush"]
    /\ is_flushable(State)
    /\ State.allocated > 0

\* C10: a pass of seal that has loaded an unsealed word and returns without
\* panicking has, in that one step, set sealed on an unsealed word, lowered
\* num_writer by one if release_writer is set and else left it, left
\* allocated as it was, and returns Flush if the new num_writer is 0, else
\* None; any other such pass leaves the word as it is; and a pass whose
\* `current` is the word does return, unless it is to release a writer
\* that is not there.
C10_Seal ==
    [][\A t \in Threads :
         (wpc[t] = "seal" /\ Moved(t) /\ ~BufferState_load(wcur[t]).sealed) =>
             LET post == BufferState_load(buffer_state')
                 dec == IF wcall[t].release THEN 1 ELSE 0
             IN  /\ IF Returned(t) /\ wlast'.ret # "panic"
                    THEN /\ ~State.sealed
                         /\ post.sealed
                         /\ post.num_writer = State.num_writer - dec
                         /\ post.allocated = State.allocated
                         /\ wlast'.ret =
                                IF post.num_writer = 0 THEN "Flush"
                                ELSE "None"
                    ELSE buffer_state' = buffer_state
                 /\ (wcur[t] = buffer_state /\ State.num_writer >= dec) =>
                        (Returned(t) /\ wlast'.ret # "panic")]_vars

\* A seal has returned None: the buffer is sealed, holds records, and still
\* has a writer, who has begun to release it.
C10_Witness ==
    /\ wlast = [op |-> "seal", ret |-> "None"]
    /\ State.sealed /\ State.num_writer = 1 /\ State.allocated > 0
    /\ \E t \in Threads : wpc[t] = "release" /\ wcall[t].op = "release_writer"


---------------------------------------------------------------------------
(***************************************************************************)
(* Claims about the records of a write buffer.                             *)
(***************************************************************************)

\* the records that carry a header and were not tombstoned, in install order
LiveRecords ==
    SelectSeq(installed, LAMBDA r : r.kind # "None" /\ ~r.tombstoned)

\* one record as the iterator reports it: where, what, and with which
\* page id and deleted-page list
EmittedItem(e) ==
    [kind |-> e.ref.res, offset |-> e.page_addr % U32_MOD,
     page_id |-> e.page_id,
     deleted_pages |-> IF e.ref.res = "DeletedPages"
                       THEN e.ref.deleted_pages ELSE <<>>]

\* one installed record, in the same terms
InstalledItem(r) ==
    [kind |-> r.kind, offset |-> r.offset, page_id |-> r.page_id,
     deleted_pages |-> r.deleted_pages]

\* C13: a completed iter() pass (next() has returned None) has emitted
\* exactly the installed records that were not tombstoned, each once and in
\* install order, each with the page id and deleted-page list it was
\* installed with.
C13_IterEmitsInstalled ==
    iterst.state = "done" =>
        /\ Len(iterst.emitted) = Len(LiveRecords)
        /\ \A k \in 1 .. Len(LiveRecords) :
               EmittedItem(iterst.emitted[k]) = InstalledItem(LiveRecords[k])

\* C13, the case: a completed pass over a buffer that holds a page and in
\* which batch was called with an empty deleted-pages list; the pass has
\* reported a record at the offset batch left without a header.
C13_Witness ==
    /\ iterst.state = "done"
    /\ \E i \in 1 .. Len(installed) :
           installed[i].kind = "Page" /\ ~installed[i].tombstoned
    /\ \E i \in 1 .. Len(installed), k \in 1 .. Len(iterst.emitted) :
           /\ installed[i].kind = "None"
           /\ EmittedItem(iterst.emitted[k]).offset = installed[i].offset

\* C14: iter() on a buffer that is not flushable panics, and no iterator
\* comes of it that could emit a record.
C14_IterPanics ==
    [][(wlast'.op = "iter" /\ ~is_flushable(State))
       => (wlast'.ret = "panic" /\ iterst'.state # "active")]_vars

\* C14, the case: iter() has been called on a buffer that is not flushable,
\* and an iterator is in hand.
C14_Witness ==
    /\ wlast = [op |-> "iter", ret |-> "Ok"]
    /\ ~is_flushable(State)
    /\ iterst.state = "active"

\* C15: for every page record installed by alloc_page or batch and not
\* tombstoned, page() of the address the installer returned is the payload
\* region the installer handed out (same start, length page_size), whatever
\* else has been installed and whatever unwritten memory holds.
C15_PageRoundTrip ==
    \A i \in 1 .. Len(installed), g \in GarbageHeaders :
        (installed[i].kind = "Page" /\ ~installed[i].tombstoned)
        => page(installed[i].page_addr, g)
               = [res |-> "Page", buf |-> installed[i].buf]

\* C15, the case: page() has returned the payload of a live page record
\* that has a record before it and a reserved region after it.
C15_Witness ==
    /\ wlast.op = "page"
    /\ wlast.ret.res = "Page"
    /\ \E i \in 2 .. (Len(installed) - 1) :
           /\ installed[i].kind = "Page"
           /\ ~installed[i].tombstoned
           /\ wlast.ret.buf = installed[i].buf

\* the header page() finds before `offset` was written by an installer and
\* is not that of a NORMAL_PAGE record
NotNormalPageBefore(offset) ==
    /\ offset >= HEADER_SIZE
    /\ offset - HEADER_SIZE \in ArenaOffsets
    /\ ~arena[offset - HEADER_SIZE].raw
    /\ from_bits_truncate(arena[offset - HEADER_SIZE].flags) # NORMAL_PAGE

\* C16: page(addr) panics, returning no page, when the file id of addr is
\* not the buffer's, when its offset is not a multiple of the word size,
\* when its offset is below the header size, or when the record whose
\* header precedes the offset is not a NORMAL_PAGE record.
C16_PagePanics ==
    \A page_addr \in PageAddrs, g \in GarbageHeaders :
        (\/ page_addr \div U32_MOD # FILE_ID
         \/ (page_addr % U32_MOD) % ALIGN # 0
         \/ page_addr % U32_MOD < HEADER_SIZE
         \/ NotNormalPageBefore(page_addr % U32_MOD))
        => page(page_addr, g).res = "panic"

\* C16, the case: page() has panicked on an address that is not a valid
\* page, in a buffer that holds a tombstoned page record and a
\* deleted-pages record.
C16_Witness ==
    /\ wlast = [op |-> "page", ret |-> page_panic("not a valid page")]
    /\ \E i \in 1 .. Len(installed) :
           installed[i].kind = "Page" /\ installed[i].tombstoned
    /\ \E i \in 1 .. Len(installed) : installed[i].kind = "DeletedPages"

---------------------------------------------------------------------------
(***************************************************************************)
(* Claims about the buffer set.                                            *)
(***************************************************************************)

\* this step is a call of install or on_flushed that did something
BSCalled(op) ==
    /\ bsLast'.op = op
    /\ bsLast' # bsLast \/ bsCurrent' # bsCurrent

\* C17: every published BufferSetVersion has end - start - 1 sealed
\* buffers, the file ids of the sealed buffers followed by the current
\* buffer are consecutive from the range start, and the current buffer's
\* file id is end - 1; the version BufferSet::new publishes has one buffer,
\* file id 0, and range [0, 1).
C17_VersionWellFormed ==
    /\ Len(bsCurrent.sealed_buffers)
           = bsCurrent.buffers_range.end - bsCurrent.buffers_range.start - 1
    /\ \A i \in 1 .. Len(snapshot(bsCurrent)) :
           snapshot(bsCurrent)[i].file_id
               = bsCurrent.buffers_range.start + i - 1
    /\ bsCurrent.current_buffer.file_id = bsCurrent.buffers_range.end - 1
    /\ bsLast = NoCall
           => bsCurrent = [buffers_range |-> [start |-> 0, end |-> 1],
                           sealed_buffers |-> <<>>,
                           current_buffer |-> Buffer(0)]

\* C17, the case: a version published by on_flushed, and one published by
\* install on top of a flushed one that holds two sealed buffers.
C17_Witness ==
    \/ /\ bsLast.op = "on_flushed"
       /\ bsLast.ret = "Ok"
       /\ bsCurrent.buffers_range.start = 2
    \/ /\ bsLast.op = "install"
       /\ bsLast.ret = "Ok"
       /\ bsCurrent.buffers_range.start = 1
       /\ Len(bsCurrent.sealed_buffers) = 2

\* C18: install(buf) with buf.file_id equal to the range end publishes the
\* version whose sealed buffers are the previous sealed buffers followed
\* by the previous current buffer, whose current buffer is buf, and whose
\* range is [start, end + 1).
C18_Install ==
    [][(BSCalled("install")
        /\ bsLast'.file_id = bsCurrent.buffers_range.end)
       => /\ bsLast'.ret = "Ok"
          /\ bsCurrent'.sealed_buffers
                 = bsCurrent.sealed_buffers \o <<bsCurrent.current_buffer>>
          /\ bsCurrent'.current_buffer = Buffer(bsLast'.file_id)
          /\ bsCurrent'.buffers_range
                 = [start |-> bsCurrent.buffers_range.start,
                    end |-> bsCurrent.buffers_range.end + 1]]_vars

\* C18, the case: install has published a version with a flushed prefix
\* and two sealed buffers.
C18_Witness ==
    /\ bsLast = [op |-> "install", file_id |-> 3, ret |-> "Ok"]
    /\ bsCurrent.buffers_range = [start |-> 1, end |-> 4]

\* C19: install(buf) with buf.file_id different from the range end panics
\* and leaves the published version as it was.
C19_InstallPanics ==
    [][(BSCalled("install")
        /\ bsLast'.file_id # bsCurrent.buffers_range.end)
       => /\ bsLast'.ret = "panic"
          /\ bsCurrent' = bsCurrent]_vars

\* C19, the case: install of a buffer whose file id is already in the set
\* has panicked.
C19_Witness ==
    /\ bsLast.op = "install"
    /\ bsLast.ret = "panic"
    /\ bsLast.file_id >= bsCurrent.buffers_range.start
    /\ bsLast.file_id < bsCurrent.buffers_range.end
    /\ Len(bsCurrent.sealed_buffers) >= 1

\* C20: on_flushed(file_id) with file_id the range start, on a version
\* holding at least one sealed buffer, succeeds and publishes the version
\* without the oldest sealed buffer: the other sealed buffers and the
\* current buffer kept in order, range [file_id + 1, end).
C20_OnFlushedRemovesOldest ==
    [][(BSCalled("on_flushed")
        /\ bsLast'.file_id = bsCurrent.buffers_range.start
        /\ Len(bsCurrent.sealed_buffers) >= 1)
       => /\ bsLast'.ret = "Ok"
          /\ bsCurrent'.sealed_buffers = Tail(bsCurrent.sealed_buffers)
          /\ bsCurrent'.current_buffer = bsCurrent.current_buffer
          /\ bsCurrent'.buffers_range
                 = [start |-> bsLast'.file_id + 1,
                    end |-> bsCurrent.buffers_range.end]]_vars

\* C20, the case: on_flushed of the range start has been called on a
\* version with two or more sealed buffers.
C20_Witness ==
    /\ bsLast.op = "on_flushed"
    /\ bsLast.file_id = bsCurrent.buffers_range.start
    /\ Len(bsCurrent.sealed_buffers) >= 2

\* C21: on_flushed(file_id) with file_id different from the range start
\* panics and leaves the published version as it was; no on_flushed retires
\* the current buffer, and the range is never empty.
C21_OnFlushedPanics ==
    /\ [](bsCurrent.buffers_range.start < bsCurrent.buffers_range.end)
    /\ [][BSCalled("on_flushed")
          => /\ bsCurrent'.current_buffer = bsCurrent.current_buffer
             /\ bsLast'.file_id # bsCurrent.buffers_range.start
                    => /\ bsLast'.ret = "panic"
                       /\ bsCurrent' = bsCurrent]_vars

\* C21, the case: on_flushed has panicked on the file id of a sealed buffer
\* that is not the oldest one.
C21_Witness ==
    /\ bsLast.op = "on_flushed"
    /\ bsLast.ret = "panic"
    /\ bsLast.file_id > bsCurrent.buffers_range.start
    /\ bsLast.file_id < bsCurrent.current_buffer.file_id

---------------------------------------------------------------------------
(***************************************************************************)
(* Claims about the flush hand-off.                                        *)
(***************************************************************************)

\* this step is the named step of the hand-off
NTStep(op) == ntLast'.op = op /\ ntVars' # ntVars

\* C22: no wake-up is lost.  No permit is stored while a task is suspended;
\* notify_flush_job wakes the task suspended longest if there is one and
\* stores a permit otherwise; wait_flushable with a permit stored completes
\* without a further notify; and, the runtime polling woken tasks, a woken
\* task completes its wait.
C22_NoLostWakeup ==
    /\ [](flush_notify.waiters # <<>> => ~flush_notify.permit)
    /\ [][NTStep("notify_flush_job")
          => IF flush_notify.waiters # <<>>
             THEN fpc'[Head(flush_notify.waiters)] = "woken"
             ELSE flush_notify'.permit]_vars
    /\ [][(NTStep("wait_flushable") /\ flush_notify.permit)
          => fpc'[ntLast'.t] = "done"]_vars
    /\ \A t \in Tasks : (fpc[t] = "woken") ~> (fpc[t] = "done")

\* C22, the case: a task that was suspended has completed its wait after a
\* notify, while another task is still suspended.
C22_Witness ==
    /\ ntLast.op = "resume"
    /\ fpc[ntLast.t] = "done"
    /\ flush_notify.waiters # <<>>

\* C23: a permit is stored exactly when one or more notifies were made
\* with no task waiting since the last wait; the next wait_flushable
\* completes at once and takes the permit, however many notifies there
\* were; a wait_flushable that finds no permit is suspended, and a
\* suspended task leaves its wait only in a notify_flush_job step.
C23_OnePermit ==
    /\ [](flush_notify.permit <=> ntSince >= 1)
    /\ [][NTStep("wait_flushable")
          => IF ntSince >= 1
             THEN fpc'[ntLast'.t] = "done" /\ ~flush_notify'.permit
             ELSE fpc'[ntLast'.t] = "waiting"]_vars
    /\ [][\A t \in Tasks :
              (fpc[t] = "waiting" /\ fpc'[t] # "waiting")
              => ntLast'.op = "notify_flush_job"]_vars

\* C23, the case: after two notifies with no task waiting, one
\* wait_flushable has completed and the permit is gone.
C23_Witness ==
    /\ ntLast.op = "wait_flushable"
    /\ ntLast.since >= 2
    /\ fpc[ntLast.t] = "done"
    /\ ~flush_notify.permit

---------------------------------------------------------------------------
(***************************************************************************)
(* Claims about the version chain.                                         *)
(***************************************************************************)

\* the Versions allocated so far
Versions == 1 .. Len(vnext)

\* the Version reached from id after k loads of next, 0 past the end
RECURSIVE hops(_, _, _)
hops(nexts, id, k) ==
    IF k = 0 \/ id = 0 THEN id ELSE hops(nexts, nexts[id], k - 1)

\* the Versions from id to the end of its chain
ChainOf(nexts, id) == {hops(nexts, id, k) : k \in 0 .. Len(nexts)} \ {0}

\* a call of the named operation returns in this step
VReturned(op) ==
    /\ vlast'.op = op
    /\ \E t \in Threads : vth[t].op = op /\ vth'[t].pc = "idle"

\* C24: the chain is append-only.  A next pointer that is set never
\* changes again, a next pointer changes only from null, a Version is
\* allocated with next = null, no Version is the successor of two
\* Versions, and no Version is reached from itself; this for callers of
\* Version::install that interleave.
C24_AppendOnly ==
    [][/\ \A id \in Versions : vnext[id] # 0 => vnext'[id] = vnext[id]
       /\ \A id \in DOMAIN vnext' \ Versions : vnext'[id] = 0
       /\ \A a, b \in DOMAIN vnext' :
              (vnext'[a] # 0 /\ vnext'[a] = vnext'[b]) => a = b
       /\ \A id \in DOMAIN vnext', k \in 1 .. Len(vnext') :
              hops(vnext', id, k) # id]_vars

\* C24, the case: two Versions were appended one after the other, the
\* second by a call on the first Version of the chain.
C24_Witness ==
    /\ vnext = <<2, 3, 0>>
    /\ vlast.op = "install"
    /\ vlast.self = 1
    /\ vlast.at = 2

C26_Refresh ==
    /\ [][VReturned("refresh")
          => LET self == vlast'.self
                 ret == vlast'.ret
             IN  /\ ret = 0 <=> vnext[self] = 0
                 /\ ret # 0 => /\ ret \in ChainOf(vnext, self) \ {self}
                               /\ vnext[ret] = 0]_vars
    /\ \A t \in Threads : (vth[t].op = "refresh") ~> (vth[t].op # "refresh")

\* C26, the case: refresh() on the first Version has returned the third
\* one, past the second.
C26_Witness ==
    /\ vlast.op = "refresh"
    /\ vlast.self = 1
    /\ vlast.ret = 3
    /\ vnext = <<2, 3, 0>>

\* from_local() returns in this step
FromLocalReturned ==
    /\ vlast'.op = "from_local"
    /\ VReturned("from_local") \/ (vlast' # vlast /\ vth' = vth)

\* C29: from_local() returns None when the thread has no cached Version;
\* otherwise it returns a Version at or after the cached one whose next it
\* has just read as null, and that Version is the cached one afterwards.
\* The cached Version of a thread moves only forwards along the chain
\* unless set_local replaces it, so between two calls of set_local the
\* results of from_local() never move backwards.
C29_FromLocal ==
    /\ [][FromLocalReturned
          => LET t == vlast'.t
                 ret == vlast'.ret
             IN  IF vlocal[t] = 0
                 THEN ret = 0 /\ vlocal'[t] = 0
                 ELSE /\ ret \in ChainOf(vnext, vlocal[t])
                      /\ vnext[ret] = 0
                      /\ vlocal'[t] = ret]_vars
    /\ [][\A t \in Threads :
              (vlast'.op = "set_local" /\ vlast'.t = t)
              \/ vlocal'[t] = vlocal[t]
              \/ (vlocal[t] # 0
                  /\ vlocal'[t] \in ChainOf(vnext, vlocal[t]))]_vars

\* C29, the case: a thread whose cached Version was the first one has got
\* the third one from from_local(), and that one is cached now.
C29_Witness ==
    /\ vlast.op = "from_local"
    /\ vlast.self = 1
    /\ vlast.ret = 3
    /\ vlocal[vlast.t] = 3

---------------------------------------------------------------------------
(***************************************************************************)
(* Claims about the buffers a Version keeps.                               *)
(***************************************************************************)

\* C27: a Version is created with the range of the current
\* BufferSetVersion and with its sealed buffers followed by its current
\* buffer; creating it changes no other Version, and install and on_flushed
\* change no Version; and every buffer in the write_buffers of a held
\* Version has a strong count of at least one, i.e. is not dropped, whether
\* or not on_flushed has removed it from the buffer set.
C27_SnapshotKept ==
    /\ [](\A i \in 1 .. Len(held) :
             \A k \in 1 .. Len(held[i].write_buffers) :
                 strong[held[i].write_buffers[k].file_id] >= 1)
    /\ [][Len(held') > Len(held)
          => /\ held'[Len(held')] =
                    [buffers_range |-> bsCurrent.buffers_range,
                     write_buffers |-> bsCurrent.sealed_buffers
                                       \o <<bsCurrent.current_buffer>>]
             /\ \A i \in 1 .. Len(held) : held'[i] = held[i]]_vars
    /\ [][bsCurrent' # bsCurrent => held' = held]_vars

\* C27, the case: on_flushed has removed buffer 0 from the buffer set, every
\* replaced BufferSetVersion has been dropped, and the one Version held,
\* created before, still has buffer 0 and is its only owner.
C27_Witness ==
    /\ Len(held) = 1
    /\ held[1].write_buffers = <<Buffer(0)>>
    /\ bsCurrent.buffers_range.start = 1
    /\ retired = {}
    /\ strong[0] = 1

---------------------------------------------------------------------------
(***************************************************************************)
(* Claims about the reclamation of BufferSetVersions.                      *)
(***************************************************************************)

\* how often the BufferSetVersion at addr has been dropped or is going to
\* be: drops done, closures deferred, and calls about to defer
Scheduled(addr) ==
    efreed[addr]
    + Cardinality({i \in DOMAIN edefer : edefer[i].addr = addr})
    + Cardinality({t \in Roles : eth[t].pc = "defer" /\ eth[t].cur = addr})

\* C28: a replaced BufferSetVersion is freed exactly once: it is dropped at
\* most once, and once it is replaced there is exactly one drop of it done
\* or to come, while the published one has none; and the BufferSetVersion a
\* thread has read under a guard it still holds is not freed.
C28_FreedOnce ==
    /\ \A addr \in DOMAIN eheap :
           /\ efreed[addr] <= 1
           /\ Scheduled(addr) = IF addr = ecur THEN 0 ELSE 1
    /\ \A t \in Roles : eth[t].pc # "idle" => efreed[eth[t].cur] = 0

\* C28, the case: the first BufferSetVersion has been replaced while the
\* reader holds a BufferSetRef to it; its drop is deferred and waits for the
\* reader's guard.
C28_Witness ==
    /\ eth["reader"].pc = "ref"
    /\ eth["reader"].cur = 1
    /\ ecur = 2
    /\ edefer = <<[addr |-> 1, waits |-> {"reader"}]>>
    /\ efreed[1] = 0

---------------------------------------------------------------------------
(***************************************************************************)
(* Claims about WriteBuffer::with_capacity.                                *)
(***************************************************************************)

\* C30: with_capacity(file_id, size) panics unless size is a power of two
\* greater than 8; otherwise the buffer it returns has that capacity and a
\* state word that reads sealed = false, num_writer = 0, allocated = 0.
C30_WithCapacity ==
    wlast.op = "with_capacity"
    => IF wlast.size > 8 /\ \E k \in 0 .. U32_BITS : wlast.size = 2 ^ k
       THEN /\ wlast.ret.res = "Ok"
            /\ wlast.ret.buf_size = wlast.size
            /\ BufferState_load(wlast.ret.buffer_state) =
                   [sealed |-> FALSE, num_writer |-> 0, allocated |-> 0]
       ELSE wlast.ret.res = "panic"

\* C30, the case: with_capacity with a size of exactly one machine word, a
\* power of two, has panicked.
C30_Witness ==
    /\ wlast.op = "with_capacity"
    /\ wlast.size = 8
    /\ wlast.ret.res = "panic"

---------------------------------------------------------------------------
(***************************************************************************)
(* Claims about record_size and the packing of the state word.             *)
(***************************************************************************)

\* C31: for every page_size whose result fits in a u32, record_size is 16
\* plus page_size rounded up to the next multiple of 8, computed without
\* overflow; and whatever record_size returns is a multiple of 8.
C31_RecordSize ==
    wlast.op = "record_size"
    => LET x == wlast.page_size
           rounded == CHOOSE m \in x .. x + 7 : m % 8 = 0
       IN  /\ 16 + rounded <= U32_MAX
              => wlast.ret.ok /\ wlast.ret.val = 16 + rounded
           /\ wlast.ret.val % 8 = 0

\* C31, the case: record_size(15) has returned 32.
C31_Witness ==
    /\ wlast.op = "record_size"
    /\ wlast.page_size = 15
    /\ wlast.ret.val = 32

\* C40: a state whose num_writer fits the writer field is packed without
\* a panic into a word that has allocated in the low U32_BITS bits,
\* num_writer in the WRITER_BITS bits above them, and sealed in the one bit
\* above those, and load returns the three fields from that word as they
\* were, for every combination of values.
C40_ApplyLoadRoundTrip ==
    (wlast.op = "apply" /\ wlast.st.num_writer < 2 ^ WRITER_BITS)
    => /\ wlast.word.ok
       /\ wlast.back = wlast.st
       /\ wlast.word.val % (2 ^ U32_BITS) = wlast.st.allocated
       /\ (wlast.word.val \div (2 ^ U32_BITS)) % (2 ^ WRITER_BITS)
              = wlast.st.num_writer
       /\ wlast.word.val \div (2 ^ (U32_BITS + WRITER_BITS))
              = IF wlast.st.sealed THEN 1 ELSE 0

\* C40, the case: the sealed state with the largest num_writer and the
\* largest allocated has been packed and read back.
C40_Witness ==
    /\ wlast.op = "apply"
    /\ wlast.st = [sealed |-> TRUE, num_writer |-> WRITER_MOD - 1,
                   allocated |-> U32_MAX]
    /\ wlast.back = wlast.st

---------------------------------------------------------------------------
(***************************************************************************)
(* Further claims about the write buffer's state word.                     *)
(***************************************************************************)

\* a whole call of the named operation is made in this step
WBStep(op) ==
    wlast'.op = op /\ (wlast' # wlast \/ buffer_state' # buffer_state)

\* C39: release_writer() and seal(true) on a buffer with num_writer = 0
\* panic and leave the state word as it is; num_writer changes by one at a
\* time and neither from 0 to its largest value nor from its largest value
\* to 0, and the sealed bit is changed by seal only, and only set.
C39_WriterCountInRange ==
    /\ [][(State.num_writer = 0
           /\ (WBStep("release_writer")
               \/ (WBStep("seal") /\ wlast'.release)))
          => (wlast'.ret = "panic" /\ buffer_state' = buffer_state)]_vars
    /\ [][/\ State'.num_writer \in {State.num_writer - 1, State.num_writer,
                                    State.num_writer + 1}
          /\ State'.sealed # State.sealed
             => (State'.sealed /\ wlast'.op = "seal")]_vars

\* C39, the case: seal(true) on an unsealed buffer without writers has
\* panicked.
C39_Witness ==
    /\ wlast = [op |-> "seal", ret |-> "panic", release |-> TRUE]
    /\ State.num_writer = 0
    /\ ~State.sealed
    /\ State.allocated > 0

\* thread t's call returns Flush in this step
ReturnsFlush(t) == Returned(t) /\ wlast'.ret = "Flush"

\* C32: with writers and sealers interleaved in any way, a call returns
\* Flush in exactly the step that makes the buffer sealed with zero
\* writers, which is that call's own compare_exchange; a buffer that is
\* sealed with zero writers is changed by no later call, so that no second
\* call returns Flush, and a buffer that arrives there has had its one
\* Flush returned.
C32_OneFlush ==
    /\ [][\A t \in Threads :
             ReturnsFlush(t) <=>
                 (Moved(t) /\ ~is_flushable(State)
                  /\ is_flushable(BufferState_load(buffer_state')))]_vars
    /\ [][is_flushable(State) =>
             (/\ buffer_state' = buffer_state
              /\ \A t \in Threads : ~ReturnsFlush(t))]_vars

\* The last writer's release has returned Flush while a seal(false) that
\* loaded the word before the buffer was sealed is still in its loop.
C32_Witness ==
    /\ wlast = [op |-> "release_writer", ret |-> "Flush"]
    /\ is_flushable(State)
    /\ \E u \in Threads :
           /\ wpc[u] = "seal"
           /\ ~wcall[u].release
           /\ ~BufferState_load(wcur[u]).sealed

\* thread t's compare_exchange in alloc_size succeeds in this step
Granted(t) ==
    /\ wpc[t] = "alloc" /\ Moved(t)
    /\ wcur[t] = buffer_state
    /\ alloc_size_pass(wcur[t], wcall[t].need, wcall[t].acquire_writer).res
           = "cas"

\* n rounded up to a multiple of ALIGN, without a width
round_up(n) == ((n + ALIGN - 1) \div ALIGN) * ALIGN

RECURSIVE SeqSum(_)
SeqSum(s) == IF s = <<>> THEN 0 ELSE Head(s) + SeqSum(Tail(s))

\* C33: whenever an alloc_page, save_deleted_pages or batch call is granted
\* its bytes, the range [offset, offset + rounded size) begins where the
\* allocated region ended, is not empty, ends inside the capacity, and the
\* allocated region ends with it afterwards - so the granted ranges are
\* disjoint and cover [0, allocated) without gaps; the records of a batch
\* follow one another inside the range, each of positive size.
C33_GrantsTile ==
    [][\A t \in Threads :
         Granted(t) =>
             LET c == wcall[t]
                 offset == alloc_size_pass(wcur[t], c.need,
                                           c.acquire_writer).offset
                 end == offset + round_up(c.need)
             IN  /\ offset = State.allocated
                 /\ offset < end
                 /\ end <= buf_size
                 /\ BufferState_load(buffer_state').allocated = end
                 /\ \A i \in 1 .. Len(c.pages) : c.pages[i] > 0
                 /\ offset + SeqSum(c.pages) <= end]_vars

\* A thread is in alloc_size with a loaded word whose allocated lies past
\* the buffer's present allocated: the allocated region has shrunk under it.
C33_Witness ==
    \E t \in Threads :
        /\ wpc[t] = "alloc"
        /\ BufferState_load(wcur[t]).allocated > State.allocated

---------------------------------------------------------------------------
(***************************************************************************)
(* Claims about install racing with on_flushed.                            *)
(***************************************************************************)

\* the file ids of the buffers a BufferSetVersion holds
file_ids(version) ==
    {snapshot(version)[i].file_id : i \in DOMAIN snapshot(version)}

\* C34: with the rotator's install and the flusher's on_flushed running
\* concurrently, every change of the published BufferSetVersion keeps both
\* threads' updates: range start and range end do not decrease, no buffer
\* below the old range start comes back, and a buffer of the old version is
\* gone only if the new range starts past it; and no BufferSetVersion is
\* scheduled for freeing more than once.
C34_NoLostUpdate ==
    /\ [][LET old == eheap[ecur]
              new == eheap'[ecur']
          IN  /\ new.buffers_range.start >= old.buffers_range.start
              /\ new.buffers_range.end >= old.buffers_range.end
              /\ \A f \in file_ids(new) : f >= old.buffers_range.start
              /\ \A f \in file_ids(old) :
                     f \in file_ids(new) \/ f < new.buffers_range.start]_vars
    /\ [](\A addr \in DOMAIN eheap : Scheduled(addr) <= 1)

\* C34, the case: the rotator and the flusher are both in switch_version,
\* each about to publish a version built from the same published one.
C34_Witness ==
    /\ eth["rotator"].pc = "store"
    /\ eth["flusher"].pc = "store"
    /\ eth["rotator"].cur = ecur
    /\ eth["flusher"].cur = ecur
    /\ Len(eth["rotator"].new.sealed_buffers) = 2
    /\ eth["flusher"].new.sealed_buffers = <<>>

---------------------------------------------------------------------------
(***************************************************************************)
(* Claims about the addresses and headers the iterator meets.              *)
(***************************************************************************)

\* C35: a page record the iterator emits carries the page address its
\* installer returned, (file_id << 32) | offset of the payload, and page()
\* of the emitted address is that record's payload.
C35_EmittedAddress ==
    iterst.state # "none" =>
    \A k \in DOMAIN iterst.emitted, i \in DOMAIN installed :
        (/\ installed[i].kind = "Page"
         /\ iterst.emitted[k].ref.res = "Page"
         /\ iterst.emitted[k].ref.buf = installed[i].buf)
        => /\ iterst.emitted[k].page_addr = installed[i].page_addr
           /\ iterst.emitted[k].page_addr
                  = page_addr_of(FILE_ID, installed[i].buf.start)
           /\ \A g \in GarbageHeaders :
                  page(iterst.emitted[k].page_addr, g)
                      = [res |-> "Page", buf |-> installed[i].buf]

\* C35, the case: the iterator has emitted the page record that an
\* installer placed first in the buffer.
C35_Witness ==
    /\ iterst.state # "none"
    /\ iterst.emitted # <<>>
    /\ installed # <<>>
    /\ installed[1].kind = "Page"
    /\ iterst.emitted[1].ref = [res |-> "Page", buf |-> installed[1].buf]
    /\ iterst.emitted[1].page_addr = page_addr_of(FILE_ID, 0)

\* the headers written by installers tile the arena from `offset` up to
\* `allocated`, each record beginning where the one before it ends
RECURSIVE Tiled(_, _)
Tiled(offset, allocated) ==
    IF offset >= allocated THEN offset = allocated
    ELSE /\ offset \in ArenaOffsets
         /\ ~arena[offset].raw
         /\ Tiled(offset + HEADER_SIZE
                       + round_up(arena[offset].page_size), allocated)

\* C36: with every installer returned, [0, allocated) is exactly tiled by
\* records whose headers an installer wrote, so that the iterator reads a
\* written header at every offset it visits; and no installer, batch with
\* an empty deleted-pages list included, has reserved space that it left
\* without a header.
C36_HeadersTile ==
    /\ Tiled(0, State.allocated)
    /\ \A i \in DOMAIN installed : installed[i].kind # "None"

\* C36, the case: batch, called with pages and an empty deleted-pages list,
\* has returned Ok, and the buffer has been made flushable.
C36_Witness ==
    /\ is_flushable(State)
    /\ Len(installed) > 1
    /\ installed[Len(installed)].kind = "None"
    /\ installed[Len(installed) - 1].kind = "Page"
    /\ installed[Len(installed)].offset + HEADER_SIZE = State.allocated

---------------------------------------------------------------------------
(***************************************************************************)
(* Claims about the compare-and-swap loops.                                *)
(***************************************************************************)

\* an invocation begins in this step: a call on the write buffer, an
\* Inner::alloc, or the deferral of an Inner::dealloc
Begins ==
    \/ \E t \in Threads : wpc[t] = "idle" /\ wpc'[t] # "idle"
    \/ \E t \in Threads : tpc[t] = "idle" /\ tpc'[t] # "idle"
    \/ \E id \in PageIds : defr[id].pc = "none" /\ defr'[id].pc # "none"

\* no thread is inside a call and no Inner::dealloc is in its loop
NoneInProgress ==
    /\ \A t \in Threads : wpc[t] = "idle" /\ tpc[t] = "idle"
    /\ \A id \in PageIds : defr[id].pc \notin {"store", "cas"}

\* C37: a pass of a compare-and-swap loop (alloc_size, release_writer and
\* seal on the state word; Inner::alloc and Inner::dealloc on the free-list
\* head) goes round again only if the word is no longer the one the pass
\* loaded, and then with the word as it is now; the words are changed by
\* nothing but an exchange that succeeds, which ends its caller's loop.  So
\* if from some time on no invocation begins, then under fair scheduling
\* every invocation comes to its end: from some time on none is in progress.
C37_LoopsTerminate ==
    /\ [][\A t \in Threads :
             /\ (wpc[t] # "idle" /\ Moved(t) /\ ~Returned(t)
                 /\ wpc'[t] = wpc[t])
                => (wcur[t] # buffer_state /\ wcur'[t] = buffer_state)
             /\ (tpc[t] = "alloc_cas" /\ tpc'[t] \notin {"alloc_cas", "idle"})
                => (tid[t] # free /\ tid'[t] = free)]_vars
    /\ [][\A id \in PageIds :
             (defr[id].pc = "cas" /\ defr'[id].pc = "store")
             => (defr[id].nx # free /\ defr'[id].nx = free)]_vars
    /\ [][/\ buffer_state' # buffer_state
             => \E t \in Threads : Returned(t) /\ wcur[t] = buffer_state
          /\ free' # free
             => \/ \E t \in Threads :
                       tpc[t] = "alloc_cas" /\ tpc'[t] = "idle"
                \/ \E id \in PageIds :
                       defr[id].pc = "cas" /\ defr'[id].pc = "none"]_vars
    /\ (<>[][~Begins]_vars) => <>[]NoneInProgress

\* C37, the case: a thread is in a loop on the state word with a word that
\* another thread's exchange has replaced since.
C37_Witness ==
    \E t \in Threads :
        /\ wpc[t] \in {"alloc", "release", "seal"}
        /\ wcur[t] # buffer_state
        /\ wlast.ret \in {"Ok", "None"}

---------------------------------------------------------------------------
(***************************************************************************)
(* Claims about the child blocks of the page table.                        *)
(***************************************************************************)

\* the child pointers that hold the address a
PointersTo(a) ==
    {w \in {<<b, i>> : b \in DOMAIN lheap, i \in 0 .. (FANOUT - 1)} :
        /\ ~lheap[w[1]].leaf
        /\ w[2] \in DOMAIN lheap[w[1]].words
        /\ lheap[w[1]].words[w[2]] = a}

\* the block found from blk along the child pointers of path, 0 if none
RECURSIVE Reach(_, _)
Reach(blk, path) ==
    IF path = <<>> \/ blk = 0 THEN blk
    ELSE Reach(Word(blk, Head(path)), Tail(path))

\* the block Index::index of thread t should have arrived at
BlockOf(t) ==
    LET loc == InnerIndex(lth[t].id)
    IN  Reach(RootOf(Head(loc)),
              SubSeq(loc, 2, Len(loc) - Len(lth[t].path)))

\* C38: with threads racing on the first access to ids of one child block:
\* a block that was allocated is installed in exactly one child pointer, or
\* is still in the hands of the thread that allocated it and is about to
\* try, or has been discarded and is then neither installed nor used; every
\* thread works on the block that is installed for its index; a child
\* pointer that is set is never changed; and get returns the value that
\* the last set of that id stored, whichever thread stored it.
C38_OneChild ==
    /\ [](/\ \A a \in DOMAIN lheap \ Roots :
                LET trying == {t \in Threads : /\ lth[t].pc = "cas"
                                               /\ lth[t].child = a}
                    using == {t \in Threads : /\ lth[t].pc # "idle"
                                              /\ lth[t].blk = a}
                IN  IF lheap[a].freed
                    THEN PointersTo(a) = {} /\ trying = {} /\ using = {}
                    ELSE Cardinality(PointersTo(a)) + Cardinality(trying) = 1
          /\ \A t \in Threads :
                lth[t].pc # "idle" => lth[t].blk = BlockOf(t)
          /\ ptLast.op = "get" => ptLast.ret = ptLast.expect)
    /\ [][\A b \in DOMAIN lheap :
             \A i \in DOMAIN lheap[b].words :
                 (~lheap[b].leaf /\ lheap[b].words[i] # 0)
                 => lheap'[b].words[i] = lheap[b].words[i]]_vars

\* C38, the case: two blocks were allocated for one index, the loser's has
\* been discarded, and a get has returned a value that a set stored.
C38_Witness ==
    /\ \E a \in DOMAIN lheap : lheap[a].freed
    /\ ptLast.op = "get"
    /\ ptLast.ret \in PtrVals
    /\ \E t \in Threads : lth[t].pc = "slot" /\ lth[t].op = "set"

=============================================================================
